---- MODULE Spec2Model ----
(***************************************************************************)
(* Model of mysql_practice:                                                *)
(*   src/config/database.py              MySQLConnection, test_connection  *)
(*   src/monitoring/database_monitor.py  DatabaseMonitor, QueryProfiler    *)
(*   src/examples/transactions.py        the transaction demos             *)
(*   src/api/rest_api.py                 DatabaseAPI                       *)
(*   src/cli.py                          status and setup commands         *)
(*   src/utils/data_generator.py         DataGenerator.generate_orders     *)
(*                                                                         *)
(* The specifications that share the module:                               *)
(*   Spec / FairSpec  the monitor object with its loop threads             *)
(*                    (start_monitoring, stop_monitoring, monitor_loop,    *)
(*                    save_metrics), FairSpec adding thread fairness;      *)
(*   SpecCollect      one get_database_metrics call followed by            *)
(*                    check_alerts on its snapshot, over every driver      *)
(*                    environment of the bounded input set;                *)
(*   SpecProfile      one QueryProfiler.profile_query call, over every     *)
(*                    query and driver environment of its input set;       *)
(*   SpecSuggest      one _get_optimization_suggestions call, over every   *)
(*                    query text, execution time and plan of its set;      *)
(*   SpecTimed        monitor_loop against a clock;                        *)
(*   SpecUpdate       execute_update, execute_update_with_id and           *)
(*                    execute_many on a connection that may fail;          *)
(*   SpecTxn          basic_transaction_demo, complex_transaction_demo;    *)
(*   SpecApi          the REST API while the database goes down and up;    *)
(*   SpecCli          the CLI's status and setup commands;                 *)
(*   SpecOrders       generate_orders, one order per step.                 *)
(*                                                                         *)
(* Text is modelled as a sequence of one-character strings so that int()   *)
(* and float() are real parsers; None is the record NoneV.                 *)
(***************************************************************************)
EXTENDS Integers, Sequences, FiniteSets, TLC

VARIABLES
    \* ---- DatabaseMonitor object and its loop threads (Spec, FairSpec) ----
    monitoring,   \* self.monitoring
    metrics,      \* self.metrics: snapshots, named by their collection number
    file,         \* lines of the daily metrics file, same naming
    pc,           \* position of every monitor_loop thread
    cur,          \* what each monitor_loop thread reads of its local `metrics`
    clock,        \* number of get_database_metrics calls started so far
    appended,     \* history: every snapshot appended to self.metrics, in order
    \* ---- one collection and evaluation (SpecCollect) ----
    env,          \* what the driver and psutil answer during the call
    stage,        \* "init", "collected", "evaluated"
    result,       \* outcome of get_database_metrics
    alerts,       \* list returned by check_alerts
    logged,       \* records self.logger has written during the two calls
    \* ---- one profile_query call (SpecProfile) ----
    penv,         \* the query, and what the driver answers during the call
    pstage,       \* "init", "done"
    presult,      \* outcome of profile_query
    \* ---- one _get_optimization_suggestions call (SpecSuggest) ----
    sinput,       \* the arguments: query, execution_time, explain_plan
    sstage,       \* "init", "done"
    suggestions,  \* the list returned
    \* ---- one monitor_loop thread against the wall clock (SpecTimed) ----
    elapsed,      \* seconds since start_monitoring, at the thread's position
    interval,     \* the argument of start_monitoring
    tpc,          \* "collect" or "sleep"
    saved_at,     \* the times at which save_metrics returned
    failed_once,  \* an iteration has failed already
    \* ---- a MySQLConnection object and its update methods (SpecUpdate) ----
    udb,          \* the object's connection and cursor
    userver,      \* the server's data and what the session has pending
    ucall,        \* the last execute_update* call: how it left and returned
    ucalls,       \* number of calls made
    \* ---- one run of a transaction demo (SpecTxn) ----
    txin,         \* the demo run, the tables before it, the driver's answers
    txstage,      \* "init", "done"
    txout,        \* the tables after it, and whether a step failed
    \* ---- the REST API serving requests (SpecApi) ----
    adb,          \* DatabaseAPI.db: unset, or the MySQLConnection it holds
    reachable,    \* the database accepts connections
    afailed,      \* a connect attempt failed and the database has been
                  \* unreachable ever since
    response,     \* the answer to the last request
    requests,     \* number of requests served
    \* ---- one command of the CLI (SpecCli) ----
    cin,          \* the command and what the database and subprocess do
    cstage,       \* "init", "done"
    cout,         \* what the command printed, ran and returned
    \* ---- one call of generate_orders (SpecOrders) ----
    gin,          \* count, and what the connection and the tables offer
    gpc,          \* "init", "loop", "returned"
    gorders,      \* the orders table rows the call inserted, with the sum
                  \* of total_price over each order's order_items rows
    giter,        \* i of the loop: iterations done
    gcount        \* orders_generated, and the value returned

loopVars == <<monitoring, metrics, file, pc, cur, clock, appended>>
callVars == <<env, stage, result, alerts, logged>>
profVars == <<penv, pstage, presult>>
suggVars == <<sinput, sstage, suggestions>>
timedVars == <<elapsed, interval, tpc, saved_at, failed_once>>
\* the variables of the specifications that follow the profiler's
updateVars == <<udb, userver, ucall, ucalls>>
txnVars == <<txin, txstage, txout>>
apiVars == <<adb, reachable, afailed, response, requests>>
cliVars == <<cin, cstage, cout>>
genVars == <<gin, gpc, gorders, giter, gcount>>
extVars == <<timedVars, updateVars, txnVars, apiVars, cliVars, genVars>>
vars == <<monitoring, metrics, file, pc, cur, clock, appended,
          env, stage, result, alerts, logged,
          penv, pstage, presult, sinput, sstage, suggestions,
          elapsed, interval, tpc, saved_at, failed_once,
          udb, userver, ucall, ucalls,
          txin, txstage, txout,
          adb, reachable, afailed, response, requests,
          cin, cstage, cout,
          gin, gpc, gorders, giter, gcount>>

(***************************************************************************)
(* Bounds of the model.                                                    *)
(***************************************************************************)
\* capacity of the buffer; the code's default is 1000 (an instance attribute)
max_metrics == 2
\* get_database_metrics calls made by the loop threads in one run
MaxSnapshots == 3

(***************************************************************************)
(* alert_thresholds, DatabaseMonitor.__init__                              *)
(***************************************************************************)
connection_count == 100
cpu_usage == 80
memory_usage == 85
disk_usage == 90

(***************************************************************************)
(* Python values                                                           *)
(***************************************************************************)
NoneV == [isNone |-> TRUE]

Some(v) == [isNone |-> FALSE, val |-> v]

Digits == {"0", "1", "2", "3", "4", "5", "6", "7", "8", "9"}

DigitVal(c) ==
    CASE c = "0" -> 0 [] c = "1" -> 1 [] c = "2" -> 2 [] c = "3" -> 3
      [] c = "4" -> 4 [] c = "5" -> 5 [] c = "6" -> 6 [] c = "7" -> 7
      [] c = "8" -> 8 [] c = "9" -> 9

RECURSIVE DecVal(_)
DecVal(s) ==
    IF s = <<>> THEN 0
    ELSE 10 * DecVal(SubSeq(s, 1, Len(s) - 1)) + DigitVal(s[Len(s)])

IsDigits(s) == s # <<>> /\ \A i \in 1..Len(s) : s[i] \in Digits

\* int(text): a run of decimal digits, with an optional sign, parses;
\* anything else raises ValueError.
PyInt(s) ==
    IF IsDigits(s) THEN [ok |-> TRUE, val |-> DecVal(s)]
    ELSE IF Len(s) > 1 /\ s[1] \in {"-", "+"} /\ IsDigits(Tail(s))
         THEN [ok |-> TRUE,
               val |-> IF s[1] = "-" THEN 0 - DecVal(Tail(s)) ELSE DecVal(Tail(s))]
         ELSE [ok |-> FALSE, val |-> 0]

\* float(text): digits with at most one decimal point parse (the value is
\* kept as whole part and fraction digits); anything else raises ValueError.
PyFloat(s) ==
    LET dots == {i \in 1..Len(s) : s[i] = "."}
    IN  IF IsDigits(s) THEN [ok |-> TRUE, whole |-> DecVal(s), frac |-> <<>>]
        ELSE IF Cardinality(dots) = 1
             THEN LET d == CHOOSE i \in dots : TRUE
                      w == SubSeq(s, 1, d - 1)
                      f == SubSeq(s, d + 1, Len(s))
                  IN  IF (w = <<>> \/ IsDigits(w)) /\ (f = <<>> \/ IsDigits(f))
                         /\ Len(s) > 1
                      THEN [ok |-> TRUE, whole |-> DecVal(w), frac |-> f]
                      ELSE [ok |-> FALSE, whole |-> 0, frac |-> <<>>]
             ELSE [ok |-> FALSE, whole |-> 0, frac |-> <<>>]

(***************************************************************************)
(* MySQLConnection (src/config/database.py).  A connection object is the   *)
(* pair of its fields; each is "none" (None), "open" or "closed".          *)
(***************************************************************************)
NewConnection == [connection |-> "none", cursor |-> "none"]

\* connect(): the driver either opens a session or raises Error, which is
\* caught here and turned into False.
Connect(db, driver_ok) ==
    IF driver_ok
    THEN [db |-> [connection |-> "open", cursor |-> "open"], ret |-> TRUE]
    ELSE [db |-> db, ret |-> FALSE]

\* Mutant of Disconnect: nothing is closed.
DisconnectSkipped(db) == db

\* disconnect(): closes the cursor when there is one, and the connection
\* when there is one and it is still connected.
Disconnect(db) ==
    [connection |-> IF db.connection = "open" THEN "closed" ELSE db.connection,
     cursor |-> IF db.cursor # "none" THEN "closed" ELSE db.cursor]

\* A driver outcome for one statement: err is "none", "access_denied" or
\* "other" (an Error of the driver), rows the rows fetched when err = "none".
\* Mutant of ExecuteQuery: the driver's Error escapes.
ExecuteQueryRaising(db, outcome) ==
    IF db.cursor = "none" THEN [raised |-> "none", err |-> "none", ret |-> NoneV]
    ELSE IF outcome.err # "none"
         THEN [raised |-> "Error", err |-> outcome.err, ret |-> NoneV]
         ELSE [raised |-> "none", err |-> "none", ret |-> Some(outcome.rows)]

\* execute_query(): None without a cursor; the rows; None when the driver
\* raises Error (caught and printed).  Nothing is raised to the caller.
ExecuteQuery(db, outcome) ==
    IF db.cursor = "none" THEN [raised |-> "none", err |-> "none", ret |-> NoneV]
    ELSE IF outcome.err # "none"
         THEN [raised |-> "none", err |-> "none", ret |-> NoneV]
         ELSE [raised |-> "none", err |-> "none", ret |-> Some(outcome.rows)]

\* Python truth of a query result: neither None nor an empty list.
Truthy(r) == ~r.isNone /\ r.val # <<>>

(***************************************************************************)
(* get_database_metrics (src/monitoring/database_monitor.py)               *)
(* A row of a dictionary cursor is a sequence of <<column, value>> pairs.  *)
(***************************************************************************)
RowKeys(row) == {row[i][1] : i \in 1..Len(row)}

RowGet(row, k) == row[CHOOSE i \in 1..Len(row) : row[i][1] = k][2]

DictSet(d, k, v) == [x \in DOMAIN d \cup {k} |-> IF x = k THEN v ELSE d[x]]

EmptyDict == [x \in {} |-> 0]

\* The loop over the SHOW STATUS rows, lines 129-141.
RECURSIVE StatusVars(_, _)
StatusVars(rows, acc) ==
    IF rows = <<>> THEN acc
    ELSE LET row == Head(rows)
             nxt == IF {"Variable_name", "Value"} \subseteq RowKeys(row)
                    THEN DictSet(acc, RowGet(row, "Variable_name"),
                                 RowGet(row, "Value"))
                    ELSE IF Len(row) >= 2
                         THEN DictSet(acc, row[1][1], row[1][2])
                         ELSE acc
         IN  StatusVars(Tail(rows), nxt)

\* int(status_vars.get(k, 0))
IntVar(sv, k) == IF k \in DOMAIN sv THEN PyInt(sv[k]) ELSE [ok |-> TRUE, val |-> 0]

\* float(status_vars.get(k, 0))
FloatVar(sv, k) ==
    IF k \in DOMAIN sv THEN PyFloat(sv[k])
    ELSE [ok |-> TRUE, whole |-> 0, frac |-> <<>>]

\* Mutant of DatabaseDict: the uptime entry is left out.
DatabaseDictNoUptime(sv, nproc) ==
    [ok |-> IntVar(sv, "Threads_connected").ok,
     dict |-> [connections |-> IntVar(sv, "Threads_connected").val,
               active_processes |-> nproc,
               status |-> "connected"]]

\* The dictionary built at lines 165-179; ok is FALSE when one of the
\* conversions raises ValueError.
DatabaseDict(sv, nproc) ==
    LET conn == IntVar(sv, "Threads_connected")
        qps == FloatVar(sv, "Queries")
        slow == IntVar(sv, "Slow_queries")
        up == IntVar(sv, "Uptime")
        pdata == IntVar(sv, "Innodb_buffer_pool_pages_data")
        ptotal == IntVar(sv, "Innodb_buffer_pool_pages_total")
    IN  [ok |-> conn.ok /\ qps.ok /\ slow.ok /\ up.ok /\ pdata.ok /\ ptotal.ok,
         dict |-> [connections |-> conn.val,
                   queries_per_second |-> [whole |-> qps.whole, frac |-> qps.frac],
                   slow_queries |-> slow.val,
                   uptime |-> up.val,
                   active_processes |-> nproc,
                   buffer_pool_size |->
                       IF "Innodb_buffer_pool_size" \in DOMAIN sv
                       THEN Some(sv["Innodb_buffer_pool_size"]) ELSE NoneV,
                   buffer_pool_pages_data |-> pdata.val,
                   buffer_pool_pages_total |-> ptotal.val,
                   status |-> "connected"]]

\* Mutant of DatabaseHandlers: no handler, the exception escapes.
DatabaseHandlersNone(kind, msg, database, db, log) ==
    [database |-> database, db |-> db, log |-> log, raised |-> kind]

\* The two handlers of the database try block, lines 183-190: Error gives
\* "disconnected", any other Exception gives "error"; both log and neither
\* closes the session.
DatabaseHandlers(kind, msg, database, db, log) ==
    IF kind = "Error"
    THEN [database |-> DictSet(DictSet(database, "error", msg),
                               "status", "disconnected"),
          db |-> db,
          log |-> Append(log, <<"ERROR", "Failed to collect database metrics">>),
          raised |-> "none"]
    ELSE [database |-> DictSet(DictSet(database, "error", msg),
                               "status", "error"),
          db |-> db,
          log |-> Append(log, <<"ERROR", "Unexpected error collecting database metrics">>),
          raised |-> "none"]

\* The database try block, lines 120-190.
DatabaseSection(e) ==
    LET c == Connect(NewConnection, e.connect_ok)
        sr == ExecuteQuery(c.db, e.status)
        sv == IF Truthy(sr.ret) THEN StatusVars(sr.ret.val, EmptyDict)
              ELSE EmptyDict
        pr == ExecuteQuery(c.db, e.proc)
        process_list == IF Truthy(pr.ret) THEN pr.ret.val ELSE <<>>
        log1 == IF pr.raised = "Error" /\ pr.err = "access_denied"
                THEN <<<<"WARNING", "SHOW PROCESSLIST requires PROCESS privilege">>>>
                ELSE <<>>
        ir == ExecuteQuery(c.db, e.innodb)
        log2 == IF ir.raised = "Error" /\ ir.err = "access_denied"
                THEN Append(log1,
                       <<"WARNING", "SHOW ENGINE INNODB STATUS requires PROCESS privilege">>)
                ELSE log1
        built == DatabaseDict(sv, Len(process_list))
    IN  IF ~c.ret
        THEN DatabaseHandlers("Error", "Failed to connect to database",
                              EmptyDict, c.db, <<>>)
        ELSE IF sr.raised # "none"
        THEN DatabaseHandlers(sr.raised, "query failed", EmptyDict, c.db, <<>>)
        ELSE IF pr.raised = "Error" /\ pr.err # "access_denied"
        THEN DatabaseHandlers("Error", "query failed", EmptyDict, c.db, <<>>)
        ELSE IF ~built.ok
        THEN DatabaseHandlers("ValueError", "invalid literal", EmptyDict, c.db, log2)
        ELSE [database |-> built.dict, db |-> Disconnect(c.db),
              log |-> log2, raised |-> "none"]

\* The system try block, lines 193-204.
SystemSection(e) ==
    IF e.sys.ok
    THEN [system |-> [cpu_percent |-> e.sys.cpu,
                      memory_percent |-> e.sys.mem,
                      disk_percent |-> e.sys.disk,
                      load_average |-> e.sys.load],
          log |-> <<>>]
    ELSE [system |-> [error |-> "psutil failed"],
          log |-> <<<<"ERROR", "Failed to collect system metrics">>>>]

\* get_database_metrics: the snapshot, and what the call did besides (the
\* session it used, the log records, the exception it let escape).
GetDatabaseMetrics(e, now) ==
    LET d == DatabaseSection(e)
        s == SystemSection(e)
    IN  IF d.raised # "none"
        THEN [raised |-> d.raised, db |-> d.db, log |-> d.log,
              metrics |-> [timestamp |-> now, database |-> d.database,
                           system |-> EmptyDict]]
        ELSE [raised |-> "none", db |-> d.db, log |-> d.log \o s.log,
              metrics |-> [timestamp |-> now, database |-> d.database,
                           system |-> s.system]]

(***************************************************************************)
(* check_alerts (src/monitoring/database_monitor.py, lines 208-232).       *)
(* An alert is the pair of its message and the value it reports; every     *)
(* alert is also written to the log as a warning.                          *)
(***************************************************************************)
\* dict.get(k, 0)
Get0(d, k) == IF k \in DOMAIN d THEN d[k] ELSE 0

\* Mutant of CheckAlerts: the comparisons are >= instead of >.
CheckAlertsAtLeast(m) ==
    LET db_metrics == m.database
        sys_metrics == m.system
        a1 == IF Get0(db_metrics, "connections") >= connection_count
              THEN <<<<"High connection count", db_metrics["connections"]>>>>
              ELSE <<>>
        a2 == IF Get0(sys_metrics, "cpu_percent") >= cpu_usage
              THEN Append(a1, <<"High CPU usage", sys_metrics["cpu_percent"]>>)
              ELSE a1
        a3 == IF Get0(sys_metrics, "memory_percent") >= memory_usage
              THEN Append(a2, <<"High memory usage", sys_metrics["memory_percent"]>>)
              ELSE a2
        a4 == IF Get0(sys_metrics, "disk_percent") >= disk_usage
              THEN Append(a3, <<"High disk usage", sys_metrics["disk_percent"]>>)
              ELSE a3
    IN  [alerts |-> a4,
         log |-> [i \in 1..Len(a4) |-> <<"WARNING", a4[i][1]>>]]

\* Mutant of CheckAlerts: the disk test comes first.
CheckAlertsDiskFirst(m) ==
    LET db_metrics == m.database
        sys_metrics == m.system
        a1 == IF Get0(sys_metrics, "disk_percent") > disk_usage
              THEN <<<<"High disk usage", sys_metrics["disk_percent"]>>>>
              ELSE <<>>
        a2 == IF Get0(db_metrics, "connections") > connection_count
              THEN Append(a1, <<"High connection count", db_metrics["connections"]>>)
              ELSE a1
        a3 == IF Get0(sys_metrics, "cpu_percent") > cpu_usage
              THEN Append(a2, <<"High CPU usage", sys_metrics["cpu_percent"]>>)
              ELSE a2
        a4 == IF Get0(sys_metrics, "memory_percent") > memory_usage
              THEN Append(a3, <<"High memory usage", sys_metrics["memory_percent"]>>)
              ELSE a3
    IN  [alerts |-> a4,
         log |-> [i \in 1..Len(a4) |-> <<"WARNING", a4[i][1]>>]]

\* Mutant of CheckAlerts: the alerts are returned and not logged.
CheckAlertsSilent(m) ==
    LET db_metrics == m.database
        sys_metrics == m.system
        a1 == IF Get0(db_metrics, "connections") > connection_count
              THEN <<<<"High connection count", db_metrics["connections"]>>>>
              ELSE <<>>
        a2 == IF Get0(sys_metrics, "cpu_percent") > cpu_usage
              THEN Append(a1, <<"High CPU usage", sys_metrics["cpu_percent"]>>)
              ELSE a1
        a3 == IF Get0(sys_metrics, "memory_percent") > memory_usage
              THEN Append(a2, <<"High memory usage", sys_metrics["memory_percent"]>>)
              ELSE a2
        a4 == IF Get0(sys_metrics, "disk_percent") > disk_usage
              THEN Append(a3, <<"High disk usage", sys_metrics["disk_percent"]>>)
              ELSE a3
    IN  [alerts |-> a4, log |-> <<>>]

\* lines 208-232: the four tests in their order, then one warning per alert
\* (lines 229-230).
CheckAlerts(m) ==
    LET db_metrics == m.database
        sys_metrics == m.system
        a1 == IF Get0(db_metrics, "connections") > connection_count
              THEN <<<<"High connection count", db_metrics["connections"]>>>>
              ELSE <<>>
        a2 == IF Get0(sys_metrics, "cpu_percent") > cpu_usage
              THEN Append(a1, <<"High CPU usage", sys_metrics["cpu_percent"]>>)
              ELSE a1
        a3 == IF Get0(sys_metrics, "memory_percent") > memory_usage
              THEN Append(a2, <<"High memory usage", sys_metrics["memory_percent"]>>)
              ELSE a2
        a4 == IF Get0(sys_metrics, "disk_percent") > disk_usage
              THEN Append(a3, <<"High disk usage", sys_metrics["disk_percent"]>>)
              ELSE a3
    IN  [alerts |-> a4,
         log |-> [i \in 1..Len(a4) |-> <<"WARNING", a4[i][1]>>]]

(***************************************************************************)
(* The environments of one collection: what the driver answers to          *)
(* connect() and to each statement, and what psutil reports.  Status       *)
(* values are the server's text: counters are rendered in decimal (the     *)
(* values around the connection threshold are included), other variables   *)
(* carry free text such as ON.  Percentages are taken on both sides of     *)
(* their thresholds.                                                       *)
(***************************************************************************)
VarRow(name, val) == << <<"Variable_name", name>>, <<"Value", val>> >>

StatusRowSet ==
    { VarRow("Threads_connected", <<"1", "0", "0">>),
      VarRow("Threads_connected", <<"1", "0", "1">>),
      VarRow("Threads_connected", <<"O", "N">>),
      VarRow("Uptime", <<"5">>),
      VarRow("Queries", <<"1", ".", "5">>),
      << <<"Uptime", <<"7">>>>, <<"Extra", <<"1">>>> >>,
      << <<"Uptime", <<"9">>>> >> }

StatusOutcomes ==
    { [err |-> "other", rows |-> <<>>] }
    \cup { [err |-> "none", rows |-> r] :
             r \in {<<>>} \cup { <<a>> : a \in StatusRowSet }
                   \cup { <<a, b>> : a \in StatusRowSet, b \in StatusRowSet } }

ProcOutcomes ==
    { [err |-> "access_denied", rows |-> <<>>], [err |-> "other", rows |-> <<>>],
      [err |-> "none", rows |-> <<>>], [err |-> "none", rows |-> <<"p1", "p2">>] }

InnodbOutcomes ==
    { [err |-> "access_denied", rows |-> <<>>], [err |-> "other", rows |-> <<>>],
      [err |-> "none", rows |-> <<"innodb">>] }

SysOutcomes ==
    { [ok |-> FALSE, cpu |-> 0, mem |-> 0, disk |-> 0, load |-> NoneV] }
    \cup { [ok |-> TRUE, cpu |-> c, mem |-> m, disk |-> d, load |-> NoneV] :
             c \in {cpu_usage, cpu_usage + 1},
             m \in {memory_usage, memory_usage + 1},
             d \in {disk_usage, disk_usage + 1} }

\* With no session nothing is asked of the server: one environment stands
\* for all the answers it would have given.
Envs ==
    { [connect_ok |-> TRUE, status |-> st, proc |-> p, innodb |-> i, sys |-> s] :
        st \in StatusOutcomes, p \in ProcOutcomes, i \in InnodbOutcomes,
        s \in SysOutcomes }
    \cup { [connect_ok |-> FALSE, status |-> [err |-> "other", rows |-> <<>>],
            proc |-> [err |-> "other", rows |-> <<>>],
            innodb |-> [err |-> "other", rows |-> <<>>], sys |-> s] :
             s \in SysOutcomes }

HealthyEnv ==
    [connect_ok |-> TRUE,
     status |-> [err |-> "none",
                 rows |-> <<VarRow("Threads_connected", <<"1", "0", "1">>),
                            VarRow("Uptime", <<"5">>)>>],
     proc |-> [err |-> "none", rows |-> <<"p1", "p2">>],
     innodb |-> [err |-> "none", rows |-> <<"innodb">>],
     sys |-> [ok |-> TRUE, cpu |-> cpu_usage + 1, mem |-> memory_usage,
              disk |-> disk_usage, load |-> NoneV]]

(***************************************************************************)
(* Literals of _get_optimization_suggestions and profile_query.  Times are *)
(* whole seconds.                                                          *)
(***************************************************************************)
\* execution_time > 1.0
slow_suggestion_time == 1
\* int(rows_examined) > 10000
rows_limit == 10000
\* query_upper.count("JOIN") > 3
join_limit == 3
\* alert_thresholds["slow_query_time"]
slow_query_time == 5

Digits10 == <<"0", "1", "2", "3", "4", "5", "6", "7", "8", "9">>

SELECT_STAR ==
    <<"S", "E", "L", "E", "C", "T", " ", "*">>

ORDER_BY ==
    <<"O", "R", "D", "E", "R", " ", "B", "Y">>

LIMIT ==
    <<"L", "I", "M", "I", "T">>

JOIN ==
    <<"J", "O", "I", "N">>

SELECT ==
    <<"S", "E", "L", "E", "C", "T">>

DEPENDENT_SUBQUERY ==
    <<"D", "E", "P", "E", "N", "D", "E", "N", "T", " ", "S", "U", "B", "Q",
      "U", "E", "R", "Y">>

(***************************************************************************)
(* Text operations of Python used by the profiler                          *)
(* (src/monitoring/database_monitor.py, lines 387 and 464-473).            *)
(***************************************************************************)
LowerCase ==
    <<"a", "b", "c", "d", "e", "f", "g", "h", "i", "j", "k", "l", "m",
      "n", "o", "p", "q", "r", "s", "t", "u", "v", "w", "x", "y", "z">>

UpperCase ==
    <<"A", "B", "C", "D", "E", "F", "G", "H", "I", "J", "K", "L", "M",
      "N", "O", "P", "Q", "R", "S", "T", "U", "V", "W", "X", "Y", "Z">>

UpperChar(c) ==
    IF \E i \in 1..Len(LowerCase) : LowerCase[i] = c
    THEN UpperCase[CHOOSE i \in 1..Len(LowerCase) : LowerCase[i] = c]
    ELSE c

\* str.upper()
StrUpper(s) == [i \in 1..Len(s) |-> UpperChar(s[i])]

\* sub in s
Contains(s, sub) ==
    \E i \in 0..(Len(s) - Len(sub)) : SubSeq(s, i + 1, i + Len(sub)) = sub

\* s.startswith(prefix)
StartsWith(s, prefix) ==
    Len(s) >= Len(prefix) /\ SubSeq(s, 1, Len(prefix)) = prefix

\* s[i:].count(sub) for a non-empty sub: occurrences that do not overlap,
\* taken from the left.
RECURSIVE CountFrom(_, _, _)
CountFrom(s, sub, i) ==
    IF i + Len(sub) - 1 > Len(s) THEN 0
    ELSE IF SubSeq(s, i, i + Len(sub) - 1) = sub
         THEN 1 + CountFrom(s, sub, i + Len(sub))
         ELSE CountFrom(s, sub, i + 1)

\* s.count(sub)
StrCount(s, sub) == CountFrom(s, sub, 1)

WhiteSpace == {" ", "\t", "\n"}

\* s.strip()
RECURSIVE LStrip(_)
LStrip(s) ==
    IF s # <<>> /\ s[1] \in WhiteSpace THEN LStrip(Tail(s)) ELSE s

RECURSIVE RStrip(_)
RStrip(s) ==
    IF s # <<>> /\ s[Len(s)] \in WhiteSpace
    THEN RStrip(SubSeq(s, 1, Len(s) - 1))
    ELSE s

Strip(s) == RStrip(LStrip(s))

(***************************************************************************)
(* Values of an EXPLAIN row: None, an int (its number in n) or a str (its  *)
(* text in v), tagged by type.                                             *)
(***************************************************************************)
PyNone == [t |-> "none", v |-> <<>>, n |-> 0]

PyIntV(i) == [t |-> "int", v |-> <<>>, n |-> i]

PyStrV(s) == [t |-> "str", v |-> s, n |-> 0]

\* decimal rendering of a natural number
RECURSIVE DecStr(_)
DecStr(n) ==
    IF n < 10 THEN <<Digits10[n + 1]>>
    ELSE Append(DecStr(n \div 10), Digits10[(n % 10) + 1])

\* str(x)
PyStr(x) ==
    CASE x.t = "none" -> <<"N", "o", "n", "e">>
      [] x.t = "int" -> DecStr(x.n)
      [] x.t = "str" -> x.v

\* A row of a plan is a dict (a function from column names to values), a
\* tuple (a sequence of values), or something else (shape "other").
DictRow(f) == [shape |-> "dict", fields |-> f, items |-> <<>>]

TupleRow(q) == [shape |-> "tuple", fields |-> EmptyDict, items |-> q]

OtherRow == [shape |-> "other", fields |-> EmptyDict, items |-> <<>>]

\* dict.get(k, default)
GetOr(d, k, default) == IF k \in DOMAIN d THEN d[k] ELSE default

(***************************************************************************)
(* QueryProfiler._get_optimization_suggestions                             *)
(* (src/monitoring/database_monitor.py, lines 418-479).  A suggestion is   *)
(* named by the first sentence of its text.                                *)
(***************************************************************************)
\* lines 432-444: the three fields read from a row, or the row is skipped.
RowFields(row) ==
    IF row.shape = "dict"
    THEN [skip |-> FALSE,
          select_type |-> GetOr(row.fields, "select_type", PyStrV(<<>>)),
          key |-> GetOr(row.fields, "key", PyNone),
          rows_examined |-> GetOr(row.fields, "rows", PyIntV(0))]
    ELSE IF row.shape = "tuple" /\ Len(row.items) >= 5
    THEN [skip |-> FALSE,
          select_type |-> PyStrV(PyStr(row.items[2])),
          key |-> IF Len(row.items) > 5 THEN row.items[6] ELSE PyNone,
          rows_examined |-> IF Len(row.items) > 8 THEN row.items[9]
                            ELSE PyIntV(0)]
    ELSE [skip |-> TRUE, select_type |-> PyStrV(<<>>), key |-> PyNone,
          rows_examined |-> PyIntV(0)]

\* int(rows_examined) for an int or a str
IntOf(x) == IF x.t = "int" THEN [ok |-> TRUE, val |-> x.n] ELSE PyInt(x.v)

\* Mutant of RowSuggestions: the key test comes after the rows test, inside
\* the reach of its ValueError.
RowSuggestionsKeyLast(row) ==
    LET f == RowFields(row)
        conv == IntOf(f.rows_examined)
        s1 == IF f.rows_examined.t \in {"int", "str"} /\ conv.val > rows_limit
              THEN <<"Large number of rows examined">>
              ELSE <<>>
        s2 == IF f.key.t = "none"
              THEN Append(s1, "No index is being used")
              ELSE s1
        s3 == IF Contains(PyStr(f.select_type), DEPENDENT_SUBQUERY)
              THEN Append(s2, "Dependent subquery detected")
              ELSE s2
    IN  IF f.skip THEN <<>>
        ELSE IF f.rows_examined.t \in {"int", "str"} /\ ~conv.ok THEN <<>>
        ELSE s3

\* lines 431-461, one pass of the loop body: the suggestions a row adds.
\* A ValueError of int() ends the pass with what was added before it.
RowSuggestions(row) ==
    LET f == RowFields(row)
        s1 == IF f.key.t = "none"
              THEN <<"No index is being used">>
              ELSE <<>>
        conv == IntOf(f.rows_examined)
        s2 == IF f.rows_examined.t \in {"int", "str"} /\ conv.val > rows_limit
              THEN Append(s1, "Large number of rows examined")
              ELSE s1
        s3 == IF Contains(PyStr(f.select_type), DEPENDENT_SUBQUERY)
              THEN Append(s2, "Dependent subquery detected")
              ELSE s2
    IN  IF f.skip THEN <<>>
        ELSE IF f.rows_examined.t \in {"int", "str"} /\ ~conv.ok THEN s1
        ELSE s3

\* the for loop over the plan
RECURSIVE PlanSuggestions(_)
PlanSuggestions(plan) ==
    IF plan = <<>> THEN <<>>
    ELSE RowSuggestions(Head(plan)) \o PlanSuggestions(Tail(plan))

\* Mutant of QueryPatternSuggestions: the text is searched as written.
QueryPatternSuggestionsCaseSensitive(query) ==
    LET query_upper == query
        q1 == IF Contains(query_upper, SELECT_STAR)
              THEN <<"Avoid SELECT *">>
              ELSE <<>>
        q2 == IF Contains(query_upper, ORDER_BY) /\ ~Contains(query_upper, LIMIT)
              THEN Append(q1, "ORDER BY without LIMIT can be expensive")
              ELSE q1
    IN  IF StrCount(query_upper, JOIN) > join_limit
        THEN Append(q2, "Multiple JOINs detected")
        ELSE q2

\* lines 463-477: the three tests on the upper-cased query text.
QueryPatternSuggestions(query) ==
    LET query_upper == StrUpper(query)
        q1 == IF Contains(query_upper, SELECT_STAR)
              THEN <<"Avoid SELECT *">>
              ELSE <<>>
        q2 == IF Contains(query_upper, ORDER_BY) /\ ~Contains(query_upper, LIMIT)
              THEN Append(q1, "ORDER BY without LIMIT can be expensive")
              ELSE q1
    IN  IF StrCount(query_upper, JOIN) > join_limit
        THEN Append(q2, "Multiple JOINs detected")
        ELSE q2

GetOptimizationSuggestions(query, execution_time, explain_plan) ==
    LET s0 == IF execution_time > slow_suggestion_time
              THEN <<"Query execution time is slow">>
              ELSE <<>>
    IN  s0 \o PlanSuggestions(explain_plan) \o QueryPatternSuggestions(query)

(***************************************************************************)
(* Inputs of the profiler: query texts, and EXPLAIN rows with every        *)
(* combination of a present, null or missing key, a rows value on either   *)
(* side of the limit (as int and as text), not a number or null, and a     *)
(* select_type with and without DEPENDENT SUBQUERY.                        *)
(***************************************************************************)
Q_SelectStarLower ==
    <<"s", "e", "l", "e", "c", "t", " ", "*", " ", "f", "r", "o", "m", " ",
      "t">>

Q_OrderBy ==
    <<"S", "E", "L", "E", "C", "T", " ", "a", " ", "F", "R", "O", "M", " ",
      "t", " ", "O", "R", "D", "E", "R", " ", "B", "Y", " ", "a">>

Q_SelectStarLimit ==
    <<"S", "e", "l", "e", "c", "t", " ", "*", " ", "F", "r", "o", "m", " ",
      "t", " ", "O", "r", "d", "e", "r", " ", "B", "y", " ", "a", " ", "L",
      "i", "m", "i", "t", " ", "1">>

Q_FourJoins ==
    <<"s", "e", "l", "e", "c", "t", " ", "a", " ", "f", "r", "o", "m", " ",
      "t", " ", "j", "o", "i", "n", " ", "u", " ", "j", "o", "i", "n", " ",
      "v", " ", "j", "o", "i", "n", " ", "w", " ", "j", "o", "i", "n", " ",
      "x">>

Q_Padded ==
    <<" ", " ", "S", "E", "L", "E", "C", "T", " ", " ", "*", " ", "F", "R",
      "O", "M", " ", "t">>

Q_Insert ==
    <<"i", "n", "s", "e", "r", "t", " ", "i", "n", "t", "o", " ", "t", " ",
      "v", "a", "l", "u", "e", "s", " ", "(", "1", ")">>

Q_DropTable ==
    <<"d", "r", "o", "p", " ", "t", "a", "b", "l", "e", " ", "t">>

Queries ==
    {Q_SelectStarLower,
     Q_OrderBy,
     Q_SelectStarLimit,
     Q_FourJoins,
     Q_Padded,
     Q_Insert,
     Q_DropTable}

T_SIMPLE ==
    <<"S", "I", "M", "P", "L", "E">>

T_idx ==
    <<"i", "d", "x">>

T_10001 ==
    <<"1", "0", "0", "0", "1">>

T_many ==
    <<"m", "a", "n", "y">>

\* a column the row does not have
Absent == [t |-> "absent", v |-> <<>>, n |-> 0]

\* the dict of the columns that are present
MkFields(st, k, r) ==
    LET col == [select_type |-> st, key |-> k, rows |-> r]
    IN  [n \in {x \in {"select_type", "key", "rows"} : col[x].t # "absent"}
           |-> col[n]]

SelectTypeChoices == {Absent, PyStrV(T_SIMPLE), PyStrV(DEPENDENT_SUBQUERY)}

KeyChoices == {Absent, PyNone, PyStrV(T_idx)}

RowsChoices ==
    {Absent, PyNone, PyIntV(rows_limit), PyIntV(rows_limit + 1),
     PyStrV(T_10001), PyStrV(T_many)}

DictRows ==
    { DictRow(MkFields(st, k, r)) :
        st \in SelectTypeChoices, k \in KeyChoices, r \in RowsChoices }

\* id, select_type, table, type, possible_keys, key, key_len, ref, rows
TupleOf(st, k, r) ==
    TupleRow(<<PyIntV(1), st, PyStrV(<<"t">>), PyNone, PyStrV(<<"A">>),
               k, PyNone, PyNone, r>>)

TupleRows ==
    { TupleOf(st, k, r) :
        st \in {PyStrV(T_SIMPLE), PyStrV(DEPENDENT_SUBQUERY)},
        k \in {PyNone, PyStrV(T_idx)},
        r \in {PyIntV(rows_limit + 1), PyStrV(T_many)} }
    \cup { TupleRow(SubSeq(TupleOf(PyStrV(DEPENDENT_SUBQUERY), PyNone,
                                   PyIntV(rows_limit + 1)).items, 1, n)) :
             n \in {4, 5, 6} }

PlanRows == DictRows \cup TupleRows \cup {OtherRow}

\* rows of the two-row plans
PairRows ==
    { DictRow(MkFields(PyStrV(DEPENDENT_SUBQUERY), PyNone, PyIntV(rows_limit + 1))),
      DictRow(MkFields(PyStrV(DEPENDENT_SUBQUERY), PyStrV(T_idx), PyStrV(T_many))),
      DictRow(MkFields(PyStrV(T_SIMPLE), PyStrV(T_idx), PyIntV(rows_limit))),
      TupleOf(PyStrV(T_SIMPLE), PyNone, PyStrV(T_many)),
      OtherRow }

Plans ==
    {<<>>} \cup { <<a>> : a \in PlanRows }
           \cup { <<a, b>> : a \in PairRows, b \in PairRows }

ExecutionTimes == {slow_suggestion_time, slow_suggestion_time + 1}

SuggestInputs ==
    { [query |-> q, execution_time |-> x, explain_plan |-> p] :
        q \in Queries, x \in ExecutionTimes, p \in Plans }

NoSuggestInput ==
    [query |-> Q_SelectStarLower, execution_time |-> 0, explain_plan |-> <<>>]

(***************************************************************************)
(* The server as one profile_query call can change it.  The session is     *)
(* opened with autocommit off (src/config/database.py, line 44): a data     *)
(* change stays pending until a commit; a DDL statement commits by itself; *)
(* closing the session discards what is pending.                           *)
(***************************************************************************)
INSERT ==
    <<"I", "N", "S", "E", "R", "T">>

DROP ==
    <<"D", "R", "O", "P">>

InitialServer == [data |-> 0, pending |-> FALSE]

\* What a statement does to the data once the server has executed it.
StatementEffect(query) ==
    LET text == StrUpper(Strip(query))
    IN  IF StartsWith(text, INSERT) THEN "dml"
        ELSE IF StartsWith(text, DROP) THEN "ddl"
        ELSE "none"

ServerApply(sv, effect) ==
    CASE effect = "dml" -> [sv EXCEPT !.pending = TRUE]
      [] effect = "ddl" -> [data |-> sv.data + 1, pending |-> FALSE]
      [] OTHER -> sv

\* connection.close() without a commit
ServerClose(sv) == [sv EXCEPT !.pending = FALSE]

(***************************************************************************)
(* QueryProfiler.profile_query and DatabaseMonitor.log_query               *)
(* (src/monitoring/database_monitor.py, lines 356-416 and 88-110).         *)
(* The outcome of a call: the exception that left it, the value returned,  *)
(* the statements handed to the cursor in order, the records written to    *)
(* the query log, the connection object and the server.                    *)
(***************************************************************************)
\* log_query: one record for the query logger; a handler that cannot write
\* drops the record without raising.
LogQuery(query, execution_time, rows_affected, handler_ok) ==
    IF handler_ok
    THEN <<[query |-> Strip(query), execution_time |-> execution_time,
            rows_affected |-> rows_affected,
            slow_query |-> execution_time > slow_query_time]>>
    ELSE <<>>

\* len(results) if results else 0
RowsReturned(r) == IF Truthy(r) THEN Len(r.val) ELSE 0

\* x or []
OrEmpty(r) == IF Truthy(r) THEN r.val ELSE <<>>

\* lines 364-416: the body after a successful connect, with its finally.
ProfileBody(db, pe) ==
    LET on == ExecuteQuery(db, pe.set_on)
        results == ExecuteQuery(db, pe.run)
        profiles == ExecuteQuery(db, pe.profiles)
        has_profiles == Truthy(profiles.ret)
        last == profiles.ret.val[Len(profiles.ret.val)]
        \* row.get("Query_ID") is None for a row without the column, and
        \* the server rejects SHOW PROFILE FOR QUERY None
        details == IF "Query_ID" \in DOMAIN last
                   THEN ExecuteQuery(db, pe.detail)
                   ELSE ExecuteQuery(db, [err |-> "other", rows |-> <<>>])
        is_select == StartsWith(StrUpper(Strip(pe.query)), SELECT)
        explained == ExecuteQuery(db, pe.explain)
        \* except Exception: explain_plan = []
        explain_plan == IF is_select /\ explained.raised = "none"
                        THEN OrEmpty(explained.ret)
                        ELSE <<>>
        \* the first statement whose exception leaves the try block
        raisedAt == IF on.raised # "none" THEN 1
                    ELSE IF results.raised # "none" THEN 2
                    ELSE IF profiles.raised # "none" THEN 3
                    ELSE IF has_profiles /\ details.raised # "none" THEN 4
                    ELSE 0
        planned == <<"SET profiling = 1", "QUERY", "SHOW PROFILES">>
                   \o (IF raisedAt \in {0, 4} /\ has_profiles
                       THEN <<"SHOW PROFILE FOR QUERY">> ELSE <<>>)
                   \o (IF raisedAt = 0 /\ is_select THEN <<"EXPLAIN">> ELSE <<>>)
        \* the finally clause: SET profiling = 0, its failure ignored, then
        \* disconnect
        tried == Append(IF raisedAt = 0 THEN planned
                        ELSE SubSeq(planned, 1, raisedAt),
                        "SET profiling = 0")
        \* execute_query hands nothing to a cursor that does not exist
        sent == IF db.cursor = "none" THEN <<>> ELSE tried
        closed == Disconnect(db)
        after_query == IF Len(sent) >= 2 /\ pe.run.executed
                       THEN ServerApply(InitialServer, StatementEffect(pe.query))
                       ELSE InitialServer
        profile_result ==
            [query |-> pe.query,
             execution_time |-> pe.time,
             rows_returned |-> RowsReturned(results.ret),
             profile_details |-> IF has_profiles THEN OrEmpty(details.ret)
                                 ELSE <<>>,
             explain_plan |-> explain_plan,
             optimization_suggestions |->
                 GetOptimizationSuggestions(pe.query, pe.time, explain_plan)]
    IN  IF raisedAt # 0
        THEN [raised |-> "Error", ret |-> EmptyDict,
              sent |-> sent, qlog |-> <<>>,
              db |-> closed, server |-> ServerClose(after_query)]
        ELSE [raised |-> "none", ret |-> profile_result,
              sent |-> sent,
              qlog |-> LogQuery(pe.query, pe.time, RowsReturned(results.ret),
                                pe.qlog_ok),
              db |-> closed, server |-> ServerClose(after_query)]

\* Mutant of ProfileConnectFailed: the result of connect() is not tested.
ProfileConnectIgnored(db, pe) == ProfileBody(db, pe)

\* lines 360-362: connect() returned False.
ProfileConnectFailed(db, pe) ==
    [raised |-> "none", ret |-> [error |-> "Failed to connect to database"],
     sent |-> <<>>, qlog |-> <<>>, db |-> db, server |-> InitialServer]

ProfileQuery(pe) ==
    LET c == Connect(NewConnection, pe.connect_ok)
    IN  IF ~c.ret THEN ProfileConnectFailed(c.db, pe)
        ELSE ProfileBody(c.db, pe)

\* The monitor_loop threads of one run: the thread of the first
\* start_monitoring call and the thread a second call adds.
Threads == {1, 2}

\* A loop thread that holds no snapshot.
NoSnapshot == [timestamp |-> 0, summary_raises |-> FALSE]

NoResult ==
    [raised |-> "none", db |-> NewConnection, log |-> <<>>,
     metrics |-> [timestamp |-> 0, database |-> EmptyDict, system |-> EmptyDict]]

(***************************************************************************)
(* SpecCollect: one get_database_metrics call, then check_alerts.          *)
(***************************************************************************)
InitLoop ==
    /\ monitoring = TRUE
    /\ metrics = <<>>
    /\ file = <<>>
    /\ pc = [t \in Threads |-> "idle"]
    /\ cur = [t \in Threads |-> NoSnapshot]
    /\ clock = 0
    /\ appended = <<>>

(***************************************************************************)
(* The environments of one profile_query call.  A statement that returns   *)
(* no result set (INSERT, DROP) is executed by cursor.execute and then     *)
(* fetchall either raises the driver's Error or returns no row, so such a  *)
(* statement can have run on the server while execute_query returns None.  *)
(***************************************************************************)
RunOutcomes(query) ==
    IF StatementEffect(query) = "none"
    THEN { [err |-> "other", rows |-> <<>>, executed |-> FALSE],
           [err |-> "none", rows |-> <<>>, executed |-> TRUE],
           [err |-> "none", rows |-> <<"r1", "r2">>, executed |-> TRUE] }
    ELSE { [err |-> "other", rows |-> <<>>, executed |-> FALSE],
           [err |-> "other", rows |-> <<>>, executed |-> TRUE],
           [err |-> "none", rows |-> <<>>, executed |-> TRUE] }

ProfilesOutcomes ==
    { [err |-> "other", rows |-> <<>>],
      [err |-> "none", rows |-> <<>>],
      [err |-> "none", rows |-> <<[Query_ID |-> 1], [Query_ID |-> 2]>>],
      [err |-> "none", rows |-> <<[Duration |-> 1]>>] }

DetailOutcomes ==
    { [err |-> "other", rows |-> <<>>],
      [err |-> "none", rows |-> <<"starting", "executing">>] }

ExplainOutcomes ==
    { [err |-> "other", rows |-> <<>>],
      [err |-> "none", rows |-> <<>>],
      [err |-> "none",
       rows |-> <<DictRow(MkFields(PyStrV(T_SIMPLE), PyNone,
                                   PyIntV(rows_limit + 1)))>>],
      [err |-> "none",
       rows |-> <<DictRow(MkFields(PyStrV(DEPENDENT_SUBQUERY), PyStrV(T_idx),
                                   PyStrV(T_many)))>>] }

StatementOutcomes == {[err |-> "other", rows |-> <<>>], [err |-> "none", rows |-> <<>>]}

ProfileEnvs ==
    { [query |-> q, connect_ok |-> c, set_on |-> o, run |-> r, profiles |-> p,
       detail |-> d, explain |-> e, time |-> x, qlog_ok |-> l] :
        q \in Queries, c \in BOOLEAN, o \in StatementOutcomes,
        r \in UNION { RunOutcomes(qq) : qq \in Queries },
        p \in ProfilesOutcomes, d \in DetailOutcomes, e \in ExplainOutcomes,
        x \in {slow_suggestion_time, slow_query_time + 1}, l \in BOOLEAN }

NoProfileEnv ==
    [query |-> Q_SelectStarLower, connect_ok |-> FALSE,
     set_on |-> [err |-> "other", rows |-> <<>>],
     run |-> [err |-> "other", rows |-> <<>>, executed |-> FALSE],
     profiles |-> [err |-> "other", rows |-> <<>>],
     detail |-> [err |-> "other", rows |-> <<>>],
     explain |-> [err |-> "other", rows |-> <<>>],
     time |-> 0, qlog_ok |-> FALSE]

NoProfile ==
    [raised |-> "none", ret |-> EmptyDict, sent |-> <<>>, qlog |-> <<>>,
     db |-> NewConnection, server |-> InitialServer]

\* No profile_query call is modelled.
InitProfileIdle ==
    /\ penv = NoProfileEnv
    /\ pstage = "init"
    /\ presult = NoProfile

\* No timed run of the loop is modelled.
InitTimedIdle ==
    /\ elapsed = 0
    /\ interval = 0
    /\ tpc = "idle"
    /\ saved_at = <<>>
    /\ failed_once = FALSE

\* The outcome record of a method call that has not been made.
NoCall ==
    [op |-> "none", was |-> "none", raised |-> "none",
     ret |-> [t |-> "none", v |-> <<>>, n |-> 0],
     sent |-> <<>>, before |-> [data |-> 0, pending |-> FALSE]]

\* No MySQLConnection object is exercised.
InitUpdateIdle ==
    /\ udb = [connection |-> "none", cursor |-> "none"]
    /\ userver = [data |-> 0, pending |-> FALSE]
    /\ ucall = NoCall
    /\ ucalls = 0

\* No transaction demo is run.
InitTxnIdle ==
    /\ txin = [demo |-> "none"]
    /\ txstage = "init"
    /\ txout = [failed |-> FALSE]

\* The answer before any request.
NoResponse ==
    [route |-> "none", status |-> 0, body |-> "none", empty |-> FALSE,
     after_failed |-> FALSE]

\* The API object after __init__, serving nothing.
InitApiIdle ==
    /\ adb = [set |-> FALSE, db |-> [connection |-> "none", cursor |-> "none"]]
    /\ reachable = TRUE
    /\ afailed = FALSE
    /\ response = NoResponse
    /\ requests = 0

\* No CLI command is run.
InitCliIdle ==
    /\ cin = [command |-> "none"]
    /\ cstage = "init"
    /\ cout = [printed |-> <<>>]

\* generate_orders is not called.
InitGenIdle ==
    /\ gin = [count |-> 0]
    /\ gpc = "init"
    /\ gorders = <<>>
    /\ giter = 0
    /\ gcount = 0

\* None of the specifications that follow the profiler's is running.
InitExtIdle ==
    /\ InitTimedIdle
    /\ InitUpdateIdle
    /\ InitTxnIdle
    /\ InitApiIdle
    /\ InitCliIdle
    /\ InitGenIdle

\* No _get_optimization_suggestions call is modelled.
InitSuggestIdle ==
    /\ sinput = NoSuggestInput
    /\ sstage = "init"
    /\ suggestions = <<>>

InitCollect ==
    /\ InitLoop
    /\ env \in Envs
    /\ stage = "init"
    /\ result = NoResult
    /\ alerts = <<>>
    /\ logged = <<>>
    /\ InitProfileIdle
    /\ InitSuggestIdle
    /\ InitExtIdle

CallGetDatabaseMetrics ==
    /\ stage = "init"
    /\ result' = GetDatabaseMetrics(env, 0)
    /\ logged' = logged \o result'.log
    /\ stage' = "collected"
    /\ UNCHANGED <<env, alerts>>
    /\ UNCHANGED loopVars
    /\ UNCHANGED <<profVars, suggVars, extVars>>

CallCheckAlerts ==
    /\ stage = "collected"
    /\ result.raised = "none"
    /\ alerts' = CheckAlerts(result.metrics).alerts
    /\ logged' = logged \o CheckAlerts(result.metrics).log
    /\ stage' = "evaluated"
    /\ UNCHANGED <<env, result>>
    /\ UNCHANGED loopVars
    /\ UNCHANGED <<profVars, suggVars, extVars>>

NextCollect == CallGetDatabaseMetrics \/ CallCheckAlerts

SpecCollect == InitCollect /\ [][NextCollect]_vars

(***************************************************************************)
(* SpecProfile: one profile_query call.                                    *)
(***************************************************************************)
InitCollectIdle ==
    /\ env = HealthyEnv
    /\ stage = "init"
    /\ result = NoResult
    /\ alerts = <<>>
    /\ logged = <<>>

InitProfile ==
    /\ InitLoop
    /\ InitCollectIdle
    /\ InitSuggestIdle
    /\ InitExtIdle
    /\ penv \in {pe \in ProfileEnvs : pe.run \in RunOutcomes(pe.query)}
    /\ pstage = "init"
    /\ presult = NoProfile

CallProfileQuery ==
    /\ pstage = "init"
    /\ presult' = ProfileQuery(penv)
    /\ pstage' = "done"
    /\ UNCHANGED <<penv, suggVars, extVars>>
    /\ UNCHANGED <<loopVars, callVars>>

NextProfile == CallProfileQuery

SpecProfile == InitProfile /\ [][NextProfile]_vars

(***************************************************************************)
(* SpecSuggest: one _get_optimization_suggestions call.                    *)
(***************************************************************************)
InitSuggest ==
    /\ InitLoop
    /\ InitCollectIdle
    /\ InitProfileIdle
    /\ InitExtIdle
    /\ sinput \in SuggestInputs
    /\ sstage = "init"
    /\ suggestions = <<>>

CallGetOptimizationSuggestions ==
    /\ sstage = "init"
    /\ suggestions' = GetOptimizationSuggestions(sinput.query,
                                                 sinput.execution_time,
                                                 sinput.explain_plan)
    /\ sstage' = "done"
    /\ UNCHANGED <<sinput, profVars, extVars>>
    /\ UNCHANGED <<loopVars, callVars>>

NextSuggest == CallGetOptimizationSuggestions

SpecSuggest == InitSuggest /\ [][NextSuggest]_vars

(***************************************************************************)
(* The monitor and its loop threads                                        *)
(* (src/monitoring/database_monitor.py, lines 234-293).                    *)
(*                                                                         *)
(* A thread of monitor_loop is at one of                                   *)
(*   "idle"     not created yet                                            *)
(*   "top"      about to test self.monitoring                              *)
(*   "collect"  about to call get_database_metrics and check_alerts        *)
(*   "append"   in save_metrics, about to append to self.metrics           *)
(*   "trim"     in save_metrics, about to test the length                  *)
(*   "write"    in save_metrics, about to append the line to the file      *)
(*   "summary"  about to format and log the summary                        *)
(*   "caught"   in the except clause, about to log the error               *)
(*   "sleep"    in time.sleep(interval)                                    *)
(*   "done"     returned from monitor_loop                                 *)
(* The steps of save_metrics are separate because another thread can run   *)
(* between any two bytecodes.                                              *)
(***************************************************************************)
Running == {t \in Threads : pc[t] \notin {"idle", "done"}}

\* Environments the loop threads collect under: a healthy server, an
\* unreachable one, and a failing psutil.
LoopEnvs ==
    { HealthyEnv,
      [HealthyEnv EXCEPT !.connect_ok = FALSE],
      [HealthyEnv EXCEPT !.sys = [ok |-> FALSE, cpu |-> 0, mem |-> 0,
                                  disk |-> 0, load |-> NoneV]] }

\* The run's supply of collection numbers is used up (a bound of the model).
BudgetSpent ==
    clock + Cardinality({t \in Threads : pc[t] = "collect"}) >= MaxSnapshots

\* The summary f-string, lines 267-273: the 'N/A' default of a missing
\* cpu_percent or memory_percent cannot be formatted with :.1f.
SummaryRaises(m) ==
    ~ ({"cpu_percent", "memory_percent"} \subseteq DOMAIN m.system)

\* Mutant of BufferTrim: nothing is evicted.
BufferTrimNever(buf) == buf

\* Mutant of BufferTrim: the newest entry is evicted (pop() instead of pop(0)).
BufferTrimNewest(buf) ==
    IF Len(buf) > max_metrics THEN SubSeq(buf, 1, Len(buf) - 1) ELSE buf

\* save_metrics, lines 238-239: if len(self.metrics) > self.max_metrics, pop(0).
BufferTrim(buf) ==
    IF Len(buf) > max_metrics THEN Tail(buf) ELSE buf

\* start_monitoring: sets the flag and starts a new thread; nothing is
\* tested first.
StartMonitoring ==
    /\ \E t \in Threads :
         /\ pc[t] = "idle"
         /\ \A u \in Threads : u < t => pc[u] # "idle"
         /\ pc' = [pc EXCEPT ![t] = "top"]
    /\ monitoring' = TRUE
    /\ UNCHANGED <<metrics, file, cur, clock, appended>>
    /\ UNCHANGED callVars
    /\ UNCHANGED <<profVars, suggVars, extVars>>

\* stop_monitoring: clears the flag.
StopMonitoring ==
    /\ monitoring' = FALSE
    /\ UNCHANGED <<metrics, file, pc, cur, clock, appended>>
    /\ UNCHANGED callVars
    /\ UNCHANGED <<profVars, suggVars, extVars>>

\* Mutant of LoopTop: the flag is not tested (while True).
LoopTopForever(t) ==
    /\ pc[t] = "top"
    /\ ~BudgetSpent
    /\ pc' = [pc EXCEPT ![t] = "collect"]
    /\ UNCHANGED <<monitoring, metrics, file, cur, clock, appended>>
    /\ UNCHANGED callVars
    /\ UNCHANGED <<profVars, suggVars, extVars>>

\* while self.monitoring:
LoopTop(t) ==
    /\ pc[t] = "top"
    /\ IF monitoring
       THEN /\ ~BudgetSpent
            /\ pc' = [pc EXCEPT ![t] = "collect"]
       ELSE pc' = [pc EXCEPT ![t] = "done"]
    /\ UNCHANGED <<monitoring, metrics, file, cur, clock, appended>>
    /\ UNCHANGED callVars
    /\ UNCHANGED <<profVars, suggVars, extVars>>

\* metrics = self.get_database_metrics(); alerts = self.check_alerts(metrics).
\* The snapshot's timestamp is the collection number; check_alerts only
\* reads the snapshot and logs, and raises nothing.
Collect(t) ==
    /\ pc[t] = "collect"
    /\ clock < MaxSnapshots
    /\ clock' = clock + 1
    /\ \E e \in LoopEnvs :
         LET r == GetDatabaseMetrics(e, clock + 1)
         IN  IF r.raised = "none"
             THEN /\ cur' = [cur EXCEPT ![t] =
                               [timestamp |-> r.metrics.timestamp,
                                summary_raises |-> SummaryRaises(r.metrics)]]
                  /\ CheckAlerts(r.metrics).alerts \in Seq(STRING \X Int)
                  /\ pc' = [pc EXCEPT ![t] = "append"]
             ELSE /\ cur' = cur
                  /\ pc' = [pc EXCEPT ![t] = "caught"]
    /\ UNCHANGED <<monitoring, metrics, file, appended>>
    /\ UNCHANGED callVars
    /\ UNCHANGED <<profVars, suggVars, extVars>>

\* save_metrics, line 237: self.metrics.append(metrics)
SaveAppend(t) ==
    /\ pc[t] = "append"
    /\ metrics' = Append(metrics, cur[t].timestamp)
    /\ appended' = Append(appended, cur[t].timestamp)
    /\ pc' = [pc EXCEPT ![t] = "trim"]
    /\ UNCHANGED <<monitoring, file, cur, clock>>
    /\ UNCHANGED callVars
    /\ UNCHANGED <<profVars, suggVars, extVars>>

\* save_metrics, lines 238-239
SaveTrim(t) ==
    /\ pc[t] = "trim"
    /\ metrics' = BufferTrim(metrics)
    /\ pc' = [pc EXCEPT ![t] = "write"]
    /\ UNCHANGED <<monitoring, file, cur, clock, appended>>
    /\ UNCHANGED callVars
    /\ UNCHANGED <<profVars, suggVars, extVars>>

\* save_metrics, lines 242-246: the line is appended to the file, or open()
\* or write() raises OSError, which monitor_loop catches.
SaveWrite(t) ==
    /\ pc[t] = "write"
    /\ \E io_ok \in BOOLEAN :
         IF io_ok
         THEN /\ file' = Append(file, cur[t].timestamp)
              /\ pc' = [pc EXCEPT ![t] = "summary"]
         ELSE /\ file' = file
              /\ pc' = [pc EXCEPT ![t] = "caught"]
    /\ UNCHANGED <<monitoring, metrics, cur, clock, appended>>
    /\ UNCHANGED callVars
    /\ UNCHANGED <<profVars, suggVars, extVars>>

\* lines 264-275: the summary is logged and the thread goes to sleep, or the
\* format raises ValueError.
LogSummary(t) ==
    /\ pc[t] = "summary"
    /\ pc' = [pc EXCEPT ![t] = IF cur[t].summary_raises THEN "caught" ELSE "sleep"]
    /\ UNCHANGED <<monitoring, metrics, file, cur, clock, appended>>
    /\ UNCHANGED callVars
    /\ UNCHANGED <<profVars, suggVars, extVars>>

\* Mutant of Caught: no except clause, the exception ends the thread.
CaughtDies(t) ==
    /\ pc[t] = "caught"
    /\ pc' = [pc EXCEPT ![t] = "done"]
    /\ cur' = [cur EXCEPT ![t] = NoSnapshot]
    /\ UNCHANGED <<monitoring, metrics, file, clock, appended>>
    /\ UNCHANGED callVars
    /\ UNCHANGED <<profVars, suggVars, extVars>>

\* lines 277-279: except Exception: log the error, then time.sleep(interval)
Caught(t) ==
    /\ pc[t] = "caught"
    /\ pc' = [pc EXCEPT ![t] = "sleep"]
    /\ UNCHANGED <<monitoring, metrics, file, cur, clock, appended>>
    /\ UNCHANGED callVars
    /\ UNCHANGED <<profVars, suggVars, extVars>>

\* time.sleep(interval) returns; the iteration's snapshot is dropped.
Sleep(t) ==
    /\ pc[t] = "sleep"
    /\ pc' = [pc EXCEPT ![t] = "top"]
    /\ cur' = [cur EXCEPT ![t] = NoSnapshot]
    /\ UNCHANGED <<monitoring, metrics, file, clock, appended>>
    /\ UNCHANGED callVars
    /\ UNCHANGED <<profVars, suggVars, extVars>>

ThreadStep(t) ==
    \/ LoopTop(t)
    \/ Collect(t)
    \/ SaveAppend(t)
    \/ SaveTrim(t)
    \/ SaveWrite(t)
    \/ LogSummary(t)
    \/ Caught(t)
    \/ Sleep(t)

Init ==
    /\ InitLoop
    /\ env = HealthyEnv
    /\ stage = "init"
    /\ result = NoResult
    /\ alerts = <<>>
    /\ logged = <<>>
    /\ InitProfileIdle
    /\ InitSuggestIdle
    /\ InitExtIdle

Next ==
    \/ StartMonitoring
    \/ StopMonitoring
    \/ \E t \in Threads : ThreadStep(t)

Spec == Init /\ [][Next]_vars

\* Every started thread keeps being scheduled, and its blocking calls
\* (the database round trips, the file write, the sleep) return.
FairSpec == Spec /\ \A t \in Threads : WF_vars(ThreadStep(t))

(***************************************************************************)
(* SpecTimed: one monitor_loop thread against the wall clock                *)
(* (src/monitoring/database_monitor.py, lines 248-279 and 192-204).        *)
(* Time is in whole seconds from start_monitoring.  An iteration takes the *)
(* time of its collection, of which the model keeps the one second         *)
(* psutil.cpu_percent(interval=1) blocks for (nothing when psutil raises   *)
(* at once), and is followed by time.sleep(interval) whether it failed or  *)
(* not.  At most one iteration fails.                                      *)
(***************************************************************************)
\* the run is observed up to this time
MaxTime == 6

\* psutil.cpu_percent(interval=1)
cpu_sample_time == 1

Intervals == {1, 2}

InitBaseIdle ==
    /\ InitLoop
    /\ InitCollectIdle
    /\ InitProfileIdle
    /\ InitSuggestIdle

InitTimed ==
    /\ InitBaseIdle
    /\ elapsed = 0
    /\ interval \in Intervals
    /\ tpc = "collect"
    /\ saved_at = <<>>
    /\ failed_once = FALSE
    /\ InitUpdateIdle
    /\ InitTxnIdle
    /\ InitApiIdle
    /\ InitCliIdle
    /\ InitGenIdle

\* Mutant of TimedIteration: the iteration takes no time.
TimedIterationInstant ==
    /\ tpc = "collect"
    /\ elapsed <= MaxTime
    /\ \E sys_ok \in BOOLEAN, fails \in BOOLEAN :
         /\ fails => ~failed_once
         /\ elapsed' = elapsed
         /\ saved_at' = IF fails THEN saved_at ELSE Append(saved_at, elapsed')
         /\ failed_once' = (failed_once \/ fails)
    /\ tpc' = "sleep"
    /\ UNCHANGED interval
    /\ UNCHANGED <<loopVars, callVars, profVars, suggVars, updateVars, txnVars, apiVars, cliVars, genVars>>

\* lines 253-261: collect, evaluate, save; or an exception on the way.
TimedIteration ==
    /\ tpc = "collect"
    /\ elapsed <= MaxTime
    /\ \E sys_ok \in BOOLEAN, fails \in BOOLEAN :
         /\ fails => ~failed_once
         /\ elapsed' = elapsed + (IF sys_ok THEN cpu_sample_time ELSE 0)
         /\ saved_at' = IF fails THEN saved_at ELSE Append(saved_at, elapsed')
         /\ failed_once' = (failed_once \/ fails)
    /\ tpc' = "sleep"
    /\ UNCHANGED interval
    /\ UNCHANGED <<loopVars, callVars, profVars, suggVars, updateVars, txnVars, apiVars, cliVars, genVars>>

\* lines 275 and 279: time.sleep(interval)
TimedSleep ==
    /\ tpc = "sleep"
    /\ elapsed' = elapsed + interval
    /\ tpc' = "collect"
    /\ UNCHANGED <<interval, saved_at, failed_once>>
    /\ UNCHANGED <<loopVars, callVars, profVars, suggVars, updateVars, txnVars, apiVars, cliVars, genVars>>

NextTimed == TimedIteration \/ TimedSleep

SpecTimed == InitTimed /\ [][NextTimed]_vars

(***************************************************************************)
(* SpecUpdate: a MySQLConnection object and its three update methods       *)
(* (src/config/database.py, lines 35-121).  The driver's calls on an open  *)
(* session (cursor.execute, connection.commit, connection.rollback) each   *)
(* succeed or raise Error; on a closed cursor or connection they raise     *)
(* Error.                                                                  *)
(***************************************************************************)
\* calls made on one object
MaxCalls == 3

\* connection.commit()
ServerCommit(sv) ==
    [data |-> sv.data + (IF sv.pending THEN 1 ELSE 0), pending |-> FALSE]

\* connection.rollback()
ServerRollback(sv) == [sv EXCEPT !.pending = FALSE]

\* What the driver answers during one call.
DriverOutcomes ==
    [execute : {"ok", "Error"}, commit : {"ok", "Error"},
     rollback : {"ok", "Error"}, rowcount : {0, 2}, lastrowid : {7}]

\* the value returned when nothing was committed: 0, or None for
\* execute_update_with_id
DefaultReturn(op) == IF op = "execute_update_with_id" THEN PyNone ELSE PyIntV(0)

\* the value returned after the commit
CommitReturn(op, o) ==
    IF op = "execute_update_with_id" THEN PyIntV(o.lastrowid)
    ELSE PyIntV(o.rowcount)

\* the except Error clause (lines 86-89, 103-106, 118-121): rollback, then
\* return 0 or None; an Error of rollback() leaves the method.
UpdateHandler(op, db, sv, o, sent) ==
    LET rb == IF db.connection = "closed" THEN "Error" ELSE o.rollback
    IN  IF rb = "ok"
        THEN [raised |-> "none", ret |-> DefaultReturn(op),
              server |-> ServerRollback(sv), sent |-> Append(sent, "rollback")]
        ELSE [raised |-> "Error", ret |-> PyNone,
              server |-> sv, sent |-> Append(sent, "rollback")]

\* execute_update, execute_update_with_id, execute_many
UpdateCall(op, db, sv, o) ==
    LET ex == IF db.cursor = "closed" THEN "Error" ELSE o.execute
        cm == IF db.connection = "closed" THEN "Error" ELSE o.commit
        changed == ServerApply(sv, "dml")
    IN  IF db.cursor = "none" \/ db.connection = "none"
        THEN [raised |-> "none", ret |-> DefaultReturn(op), server |-> sv,
              sent |-> <<>>]
        ELSE IF ex = "Error"
        THEN UpdateHandler(op, db, sv, o, <<"execute">>)
        ELSE IF cm = "Error"
        THEN UpdateHandler(op, db, changed, o, <<"execute", "commit">>)
        ELSE [raised |-> "none", ret |-> CommitReturn(op, o),
              server |-> ServerCommit(changed),
              sent |-> <<"execute", "commit">>]

InitUpdate ==
    /\ InitBaseIdle
    /\ InitExtIdle

\* connect() on an object that holds no open session
UConnect ==
    /\ udb.connection # "open"
    /\ \E driver_ok \in BOOLEAN : udb' = Connect(udb, driver_ok).db
    /\ UNCHANGED <<userver, ucall, ucalls>>
    /\ UNCHANGED <<loopVars, callVars, profVars, suggVars, timedVars, txnVars, apiVars, cliVars, genVars>>

\* disconnect(); the server discards what the session had pending
UDisconnect ==
    /\ udb.connection = "open"
    /\ udb' = Disconnect(udb)
    /\ userver' = ServerClose(userver)
    /\ UNCHANGED <<ucall, ucalls>>
    /\ UNCHANGED <<loopVars, callVars, profVars, suggVars, timedVars, txnVars, apiVars, cliVars, genVars>>

UpdateStep(op) ==
    /\ ucalls < MaxCalls
    /\ ucalls' = ucalls + 1
    /\ \E o \in DriverOutcomes :
         LET r == UpdateCall(op, udb, userver, o)
         IN  /\ userver' = r.server
             /\ ucall' = [op |-> op, was |-> udb.connection,
                          raised |-> r.raised, ret |-> r.ret, sent |-> r.sent,
                          before |-> userver]
    /\ UNCHANGED udb
    /\ UNCHANGED <<loopVars, callVars, profVars, suggVars, timedVars, txnVars, apiVars, cliVars, genVars>>

ExecuteUpdate == UpdateStep("execute_update")

ExecuteUpdateWithId == UpdateStep("execute_update_with_id")

ExecuteMany == UpdateStep("execute_many")

NextUpdate ==
    \/ UConnect
    \/ UDisconnect
    \/ ExecuteUpdate
    \/ ExecuteUpdateWithId
    \/ ExecuteMany

SpecUpdate == InitUpdate /\ [][NextUpdate]_vars

(***************************************************************************)
(* SpecTxn: the transaction demos of src/examples/transactions.py over a   *)
(* server that keeps committed tables and the session's pending changes.   *)
(* A table or a stock column is named by a string and holds a number (rows *)
(* of the table, units in stock).  The rollback and commit calls of the    *)
(* driver succeed here; their failure is the subject of SpecUpdate.        *)
(***************************************************************************)
Columns ==
    {"ELEC-001", "ELEC-002", "ELEC-004", "CLOTH-001",
     "orders", "order_items", "order_totals"}

Change(column, delta) == [column |-> column, delta |-> delta]

RECURSIVE ApplyAll(_, _)
ApplyAll(tables, changes) ==
    IF changes = <<>> THEN tables
    ELSE ApplyAll([tables EXCEPT ![Head(changes).column] = @ + Head(changes).delta],
                  Tail(changes))

\* connection.commit()
TxCommit(sv) ==
    [committed |-> ApplyAll(sv.committed, sv.pending), pending |-> <<>>]

\* connection.rollback()
TxRollback(sv) == [committed |-> sv.committed, pending |-> <<>>]

\* What the server answers to the statement of one execute_update call:
\* it changes a row, it matches no row, or the driver raises Error.
UpdateOutcomes == {"ok", "norow", "Error"}

\* Mutant of TxExecuteUpdate: the method leaves the commit to its caller.
TxExecuteUpdateNoCommit(sv, change, outcome) ==
    CASE outcome = "ok" ->
           [ret |-> 1,
            server |-> [sv EXCEPT !.pending = Append(sv.pending, change)]]
      [] outcome = "norow" -> [ret |-> 0, server |-> sv]
      [] outcome = "Error" -> [ret |-> 0, server |-> TxRollback(sv)]

\* MySQLConnection.execute_update (src/config/database.py, lines 76-89) on
\* this server: execute, commit, return rowcount; on Error roll back and
\* return 0.
TxExecuteUpdate(sv, change, outcome) ==
    CASE outcome = "ok" ->
           [ret |-> 1,
            server |-> TxCommit([sv EXCEPT !.pending = Append(sv.pending, change)])]
      [] outcome = "norow" -> [ret |-> 0, server |-> TxCommit(sv)]
      [] outcome = "Error" -> [ret |-> 0, server |-> TxRollback(sv)]

\* basic_transaction_demo, lines 41-98.  e.connected: self.db.connection is
\* set; e.found: the stock query returned both products; e.u1, e.u2: the
\* outcomes of the two updates.
transfer_amount == 10

BasicTransactionDemo(sv, e) ==
    LET r1 == TxExecuteUpdate(sv, Change("ELEC-001", 0 - transfer_amount), e.u1)
        r2 == TxExecuteUpdate(r1.server, Change("ELEC-002", transfer_amount), e.u2)
    IN  IF ~e.connected
        THEN [server |-> sv, failed |-> TRUE]
        ELSE IF ~e.found
        THEN [server |-> TxRollback(sv), failed |-> TRUE]
        ELSE IF r1.ret > 0 /\ r2.ret > 0
        THEN [server |-> TxCommit(r2.server), failed |-> FALSE]
        ELSE [server |-> TxRollback(r2.server), failed |-> TRUE]

\* complex_transaction_demo, lines 172-235: one pass of the loop over
\* products_to_order.  A result with raised = TRUE stands for the
\* raise Exception of the step that failed.
ProcessItem(sv, sku, quantity, e) ==
    LET added == TxExecuteUpdate(sv, Change("order_items", 1), e.item)
        stocked == TxExecuteUpdate(added.server, Change(sku, 0 - quantity), e.stock)
    IN  IF ~e.found THEN [raised |-> TRUE, server |-> sv]
        ELSE IF sv.committed[sku] < quantity THEN [raised |-> TRUE, server |-> sv]
        ELSE IF added.ret = 0 THEN [raised |-> TRUE, server |-> added.server]
        ELSE IF stocked.ret = 0 THEN [raised |-> TRUE, server |-> stocked.server]
        ELSE [raised |-> FALSE, server |-> stocked.server]

\* complex_transaction_demo, lines 145-249: every failing step raises, and
\* the except clause rolls back.
ComplexTransactionDemo(sv, e) ==
    LET created == TxExecuteUpdate(sv, Change("orders", 1), e.order)
        item1 == ProcessItem(created.server, "ELEC-004", 2, e.first)
        item2 == ProcessItem(item1.server, "CLOTH-001", 1, e.second)
        total == TxExecuteUpdate(item2.server, Change("order_totals", 1), e.total)
    IN  IF created.ret = 0
        THEN [server |-> TxRollback(created.server), failed |-> TRUE]
        ELSE IF ~e.order_id_ok
        THEN [server |-> TxRollback(created.server), failed |-> TRUE]
        ELSE IF item1.raised
        THEN [server |-> TxRollback(item1.server), failed |-> TRUE]
        ELSE IF item2.raised
        THEN [server |-> TxRollback(item2.server), failed |-> TRUE]
        ELSE IF total.ret = 0
        THEN [server |-> TxRollback(total.server), failed |-> TRUE]
        ELSE [server |-> TxCommit(total.server), failed |-> FALSE]

\* The tables before a demo: stock on either side of the ordered quantity.
InitialTables ==
    { [c \in Columns |->
         CASE c = "ELEC-001" -> 20
           [] c = "ELEC-002" -> 5
           [] c = "ELEC-004" -> a
           [] c = "CLOTH-001" -> b
           [] OTHER -> 0] : a \in {1, 2}, b \in {0, 1} }

BasicEnvs ==
    [connected : BOOLEAN, found : BOOLEAN, u1 : UpdateOutcomes, u2 : UpdateOutcomes]

ItemEnvs == [found : BOOLEAN, item : UpdateOutcomes, stock : UpdateOutcomes]

ComplexEnvs ==
    [order : UpdateOutcomes, order_id_ok : BOOLEAN, first : ItemEnvs,
     second : ItemEnvs, total : UpdateOutcomes]

InitTxn ==
    /\ InitBaseIdle
    /\ InitTimedIdle
    /\ InitUpdateIdle
    /\ InitApiIdle
    /\ InitCliIdle
    /\ InitGenIdle
    /\ txin \in { [demo |-> "basic", tables |-> t, basic |-> b,
                    complex |-> CHOOSE c \in ComplexEnvs : TRUE] :
                     t \in InitialTables, b \in BasicEnvs }
              \cup { [demo |-> "complex", tables |-> t,
                      basic |-> CHOOSE b \in BasicEnvs : TRUE, complex |-> c] :
                       t \in InitialTables, c \in ComplexEnvs }
    /\ txstage = "init"
    /\ txout = [failed |-> FALSE]

CallBasicTransactionDemo ==
    /\ txstage = "init"
    /\ txin.demo = "basic"
    /\ txout' = BasicTransactionDemo([committed |-> txin.tables, pending |-> <<>>],
                                     txin.basic)
    /\ txstage' = "done"
    /\ UNCHANGED txin
    /\ UNCHANGED <<loopVars, callVars, profVars, suggVars, timedVars, updateVars, apiVars, cliVars, genVars>>

CallComplexTransactionDemo ==
    /\ txstage = "init"
    /\ txin.demo = "complex"
    /\ txout' = ComplexTransactionDemo([committed |-> txin.tables, pending |-> <<>>],
                                       txin.complex)
    /\ txstage' = "done"
    /\ UNCHANGED txin
    /\ UNCHANGED <<loopVars, callVars, profVars, suggVars, timedVars, updateVars, apiVars, cliVars, genVars>>

NextTxn == CallBasicTransactionDemo \/ CallComplexTransactionDemo

SpecTxn == InitTxn /\ [][NextTxn]_vars

(***************************************************************************)
(* SpecApi: the Flask application of src/api/rest_api.py serving requests  *)
(* while the database goes down and comes back.  A connect succeeds        *)
(* exactly when the database is reachable; a statement on an open cursor   *)
(* fails with the driver's Error when it is not.                           *)
(***************************************************************************)
MaxRequests == 5

\* Mutant of GetDb: a wrapper whose connect failed is not kept.
GetDbForgetting(api, driver_ok) ==
    IF ~api.set
    THEN LET c == Connect(NewConnection, driver_ok)
         IN  IF ~c.ret
             THEN [api |-> [set |-> FALSE, db |-> NewConnection], ret |-> "None",
                   attempted |-> TRUE]
             ELSE [api |-> [set |-> TRUE, db |-> c.db], ret |-> "db",
                   attempted |-> TRUE]
    ELSE [api |-> api, ret |-> "db", attempted |-> FALSE]

\* DatabaseAPI.get_db, lines 27-33: self.db is assigned before connect() is
\* tried, and a MySQLConnection object is true whether connected or not.
GetDb(api, driver_ok) ==
    IF ~api.set
    THEN LET c == Connect(NewConnection, driver_ok)
         IN  IF ~c.ret
             THEN [api |-> [set |-> TRUE, db |-> c.db], ret |-> "None",
                   attempted |-> TRUE]
             ELSE [api |-> [set |-> TRUE, db |-> c.db], ret |-> "db",
                   attempted |-> TRUE]
    ELSE [api |-> api, ret |-> "db", attempted |-> FALSE]

\* What the driver does with a statement: Error when the database is
\* unreachable, the rows otherwise.
ApiOutcome(up, rows) ==
    IF up THEN [err |-> "none", rows |-> rows] ELSE [err |-> "other", rows |-> <<>>]

ConnectionFailed(route, stale) ==
    [route |-> route, status |-> 500, body |-> "Database connection failed",
     empty |-> FALSE, after_failed |-> stale]

\* get_stats, lines 210-239: every count is result[0]['count'] if result
\* else 0.
GetStatsResponse(db, up, rows, stale) ==
    LET fetched == ExecuteQuery(db, ApiOutcome(up, rows)).ret
    IN  [route |-> "stats", status |-> 200, body |-> "stats",
         empty |-> ~Truthy(fetched), after_failed |-> stale]

\* get_customers, lines 241-273: "customers": customers or [].
GetCustomersResponse(db, up, rows, stale) ==
    LET customers == ExecuteQuery(db, ApiOutcome(up, rows)).ret
    IN  [route |-> "customers", status |-> 200, body |-> "customers",
         empty |-> ~Truthy(customers), after_failed |-> stale]

\* get_customer, lines 275-298: 404 when the result is None or empty.
GetCustomerResponse(db, up, rows, stale) ==
    LET fetched == ExecuteQuery(db, ApiOutcome(up, rows)).ret
    IN  IF ~Truthy(fetched)
        THEN [route |-> "customer", status |-> 404, body |-> "Customer not found",
              empty |-> TRUE, after_failed |-> stale]
        ELSE [route |-> "customer", status |-> 200, body |-> "customer",
              empty |-> FALSE, after_failed |-> stale]

RouteResponse(route, db, up, rows, stale) ==
    CASE route = "stats" -> GetStatsResponse(db, up, rows, stale)
      [] route = "customers" -> GetCustomersResponse(db, up, rows, stale)
      [] route = "customer" -> GetCustomerResponse(db, up, rows, stale)

\* The rows a reachable database returns: none, or one row.
ApiRows == {<<>>, <<"row">>}

InitApi ==
    /\ InitBaseIdle
    /\ InitTimedIdle
    /\ InitUpdateIdle
    /\ InitTxnIdle
    /\ InitCliIdle
    /\ InitGenIdle
    /\ adb = [set |-> FALSE, db |-> NewConnection]
    /\ reachable \in BOOLEAN
    /\ afailed = FALSE
    /\ response = NoResponse
    /\ requests = 0

\* One request to a route: db = self.get_db(); 500 if not db; else the
\* route's queries.
Request(route) ==
    /\ requests < MaxRequests
    /\ \E rows \in ApiRows :
         LET got == GetDb(adb, reachable)
         IN  /\ adb' = got.api
             /\ afailed' = (afailed \/ (got.attempted /\ got.ret = "None"))
             /\ response' =
                    IF got.ret = "None"
                    THEN ConnectionFailed(route, afailed)
                    ELSE RouteResponse(route, got.api.db, reachable, rows, afailed)
    /\ requests' = requests + 1
    /\ UNCHANGED reachable
    /\ UNCHANGED <<loopVars, callVars, profVars, suggVars, timedVars, updateVars, txnVars, cliVars, genVars>>

GetStats == Request("stats")

GetCustomers == Request("customers")

GetCustomer == Request("customer")

\* The database becomes unreachable.
DatabaseDown ==
    /\ reachable
    /\ reachable' = FALSE
    /\ UNCHANGED <<adb, afailed, response, requests>>
    /\ UNCHANGED <<loopVars, callVars, profVars, suggVars, timedVars, updateVars, txnVars, cliVars, genVars>>

\* The database becomes reachable again.
DatabaseUp ==
    /\ ~reachable
    /\ reachable' = TRUE
    /\ afailed' = FALSE
    /\ UNCHANGED <<adb, response, requests>>
    /\ UNCHANGED <<loopVars, callVars, profVars, suggVars, timedVars, updateVars, txnVars, cliVars, genVars>>

NextApi == GetStats \/ GetCustomers \/ GetCustomer \/ DatabaseDown \/ DatabaseUp

SpecApi == InitApi /\ [][NextApi]_vars

(***************************************************************************)
(* SpecCli: the status and setup commands of src/cli.py, which rest on     *)
(* test_connection of src/config/database.py.                              *)
(***************************************************************************)
\* A Python value that is None or a bool, and its truth.
PyTrue(x) == IF x.isNone THEN FALSE ELSE x.val

\* Mutant of TestConnection: the function returns whether it connected.
TestConnectionReturning(e) ==
    LET entered == Connect(NewConnection, e.driver_ok).db
    IN  [ret |-> Some(entered.connection = "open"),
         connected |-> entered.connection = "open",
         db |-> Disconnect(entered)]

\* test_connection, lines 168-192: connects in a with block, prints what
\* it finds and ends without a return statement: the call's value is None.
TestConnection(e) ==
    LET entered == Connect(NewConnection, e.driver_ok).db
        version == IF entered.connection = "open"
                   THEN ExecuteQuery(entered, e.version).ret ELSE NoneV
        schema == IF entered.connection = "open"
                  THEN ExecuteQuery(entered, e.schema).ret ELSE NoneV
    IN  [ret |-> NoneV,
         connected |-> entered.connection = "open",
         db |-> Disconnect(entered)]

MSG_OK == "Database connection successful!"

MSG_FAILED == "Database connection failed!"

MSG_SETUP_FAILED == "Database connection failed. Please check your configuration."

MSG_SETUP_DONE == "Database setup completed successfully!"

MSG_SETUP_ERROR == "Database setup failed"

\* main, lines 368-372, and interactive_mode, lines 280-284.
StatusCommand(e) ==
    LET tested == TestConnection(e)
    IN  [printed |-> IF PyTrue(tested.ret) THEN <<MSG_OK>> ELSE <<MSG_FAILED>>,
         connected |-> tested.connected, ran_create |-> FALSE, ret |-> NoneV]

\* setup_database, lines 25-44.
SetupDatabase(e) ==
    LET tested == TestConnection(e)
    IN  IF ~PyTrue(tested.ret)
        THEN [printed |-> <<MSG_SETUP_FAILED>>, connected |-> tested.connected,
              ran_create |-> FALSE, ret |-> Some(FALSE)]
        ELSE IF e.create_ok
        THEN [printed |-> <<MSG_SETUP_DONE>>, connected |-> tested.connected,
              ran_create |-> TRUE, ret |-> Some(TRUE)]
        ELSE [printed |-> <<MSG_SETUP_ERROR>>, connected |-> tested.connected,
              ran_create |-> TRUE, ret |-> Some(FALSE)]

\* What the server answers to the two statements of test_connection.
CliQueryOutcomes ==
    { [err |-> "other", rows |-> <<>>], [err |-> "none", rows |-> <<>>],
      [err |-> "none", rows |-> <<"row">>] }

CliEnvs ==
    [command : {"status", "interactive_status", "setup"}, driver_ok : BOOLEAN,
     version : CliQueryOutcomes, schema : CliQueryOutcomes, create_ok : BOOLEAN]

InitCli ==
    /\ InitBaseIdle
    /\ InitTimedIdle
    /\ InitUpdateIdle
    /\ InitTxnIdle
    /\ InitApiIdle
    /\ InitGenIdle
    /\ cin \in CliEnvs
    /\ cstage = "init"
    /\ cout = [printed |-> <<>>]

CliStep(command, out) ==
    /\ cstage = "init"
    /\ cin.command = command
    /\ cout' = out
    /\ cstage' = "done"
    /\ UNCHANGED cin
    /\ UNCHANGED <<loopVars, callVars, profVars, suggVars, timedVars, updateVars, txnVars, apiVars, genVars>>

\* python cli.py status
MainStatus == CliStep("status", StatusCommand(cin))

\* choice "9" or "status" of interactive_mode
InteractiveStatus == CliStep("interactive_status", StatusCommand(cin))

\* python cli.py setup
CallSetupDatabase == CliStep("setup", SetupDatabase(cin))

NextCli == MainStatus \/ InteractiveStatus \/ CallSetupDatabase

SpecCli == InitCli /\ [][NextCli]_vars

(***************************************************************************)
(* SpecOrders: DataGenerator.generate_orders of                            *)
(* src/utils/data_generator.py, one loop iteration per step.  Every        *)
(* statement goes through execute_update or execute_update_with_id, which  *)
(* commit it or return 0 / None; amounts are whole numbers.  The schema is *)
(* not part of the sources: products.price reaches Python as a float or,   *)
(* from a DECIMAL column, as a decimal.Decimal.                            *)
(***************************************************************************)
MaxOrders == 2

MaxItems == 2

\* products: the price of the one product the query returns
product_price == 3

PriceTypes == {"float", "Decimal"}

\* One order item: random.randint(1, 3) for the quantity, and whether the
\* INSERT INTO order_items takes effect.
ItemChoices == [quantity : {1, 2}, inserted : BOOLEAN]

ItemLists == UNION { [1..n -> ItemChoices] : n \in 1..MaxItems }

\* lines 375-381: order_total += total_price for every item of the loop
RECURSIVE OrderTotal(_)
OrderTotal(chosen) ==
    IF chosen = <<>> THEN 0
    ELSE OrderTotal(SubSeq(chosen, 1, Len(chosen) - 1))
           + product_price * chosen[Len(chosen)].quantity

\* The sum of total_price over the order_items rows that were inserted.
RECURSIVE ItemsInserted(_)
ItemsInserted(chosen) ==
    IF chosen = <<>> THEN 0
    ELSE ItemsInserted(SubSeq(chosen, 1, Len(chosen) - 1))
           + (IF chosen[Len(chosen)].inserted
              THEN product_price * chosen[Len(chosen)].quantity ELSE 0)

\* Mutant of OneOrder: an order is counted only if every statement took
\* effect.
OneOrderChecked(price_type, order_ok, chosen, total_ok) ==
    IF ~order_ok THEN [rows |-> <<>>, counted |-> 0]
    ELSE IF price_type = "Decimal"
    THEN [rows |-> <<[total_amount |-> 0, items_total |-> 0, counted |-> FALSE]>>,
          counted |-> 0]
    ELSE LET all_ok == total_ok /\ \A k \in 1..Len(chosen) : chosen[k].inserted
         IN  [rows |-> <<[total_amount |-> IF total_ok THEN OrderTotal(chosen) ELSE 0,
                          items_total |-> ItemsInserted(chosen),
                          counted |-> all_ok]>>,
              counted |-> IF all_ok THEN 1 ELSE 0]

\* One pass of the loop, lines 342-409.  No order id: continue.  With a
\* Decimal price, 0.00 + Decimal raises TypeError at the first item, and
\* the except clause continues with the order row left as inserted.
\* Otherwise the returns of the item inserts and of the total update are
\* not looked at, and the order is counted.
OneOrder(price_type, order_ok, chosen, total_ok) ==
    IF ~order_ok THEN [rows |-> <<>>, counted |-> 0]
    ELSE IF price_type = "Decimal"
    THEN [rows |-> <<[total_amount |-> 0, items_total |-> 0, counted |-> FALSE]>>,
          counted |-> 0]
    ELSE [rows |-> <<[total_amount |-> IF total_ok THEN OrderTotal(chosen) ELSE 0,
                      items_total |-> ItemsInserted(chosen),
                      counted |-> TRUE]>>,
          counted |-> 1]

GenEnvs ==
    [count : 1..MaxOrders, connected : BOOLEAN, found : BOOLEAN,
     price_type : PriceTypes]

InitOrders ==
    /\ InitBaseIdle
    /\ InitTimedIdle
    /\ InitUpdateIdle
    /\ InitTxnIdle
    /\ InitApiIdle
    /\ InitCliIdle
    /\ gin \in GenEnvs
    /\ gpc = "init"
    /\ gorders = <<>>
    /\ giter = 0
    /\ gcount = 0

\* lines 325-341: return 0 without a connection, or without customers or
\* products.
StartGenerateOrders ==
    /\ gpc = "init"
    /\ gpc' = IF gin.connected /\ gin.found THEN "loop" ELSE "returned"
    /\ UNCHANGED <<gin, gorders, giter, gcount>>
    /\ UNCHANGED <<loopVars, callVars, profVars, suggVars, timedVars, updateVars, txnVars, apiVars, cliVars>>

\* for i in range(count): one order
GenerateOrder ==
    /\ gpc = "loop"
    /\ giter < gin.count
    /\ \E order_ok \in BOOLEAN, chosen \in ItemLists, total_ok \in BOOLEAN :
         LET made == OneOrder(gin.price_type, order_ok, chosen, total_ok)
         IN  /\ gorders' = gorders \o made.rows
             /\ gcount' = gcount + made.counted
    /\ giter' = giter + 1
    /\ UNCHANGED <<gin, gpc>>
    /\ UNCHANGED <<loopVars, callVars, profVars, suggVars, timedVars, updateVars, txnVars, apiVars, cliVars>>

\* lines 411-412: return orders_generated
ReturnOrders ==
    /\ gpc = "loop"
    /\ giter = gin.count
    /\ gpc' = "returned"
    /\ UNCHANGED <<gin, gorders, giter, gcount>>
    /\ UNCHANGED <<loopVars, callVars, profVars, suggVars, timedVars, updateVars, txnVars, apiVars, cliVars>>

NextOrders == StartGenerateOrders \/ GenerateOrder \/ ReturnOrders

SpecOrders == InitOrders /\ [][NextOrders]_vars

(***************************************************************************)
(* Properties                                                              *)
(***************************************************************************)
NoSaveInFlight == \A t \in Threads : pc[t] # "trim"

Range(q) == {q[i] : i \in 1..Len(q)}

Increasing(q) == \A i, j \in 1..Len(q) : i < j => q[i] < q[j]

LastOf(q, n) == SubSeq(q, Len(q) - n + 1, Len(q))

HasAlert(name) == \E i \in 1..Len(alerts) : alerts[i][1] = name

\* C1 (FairSpec): an exception caught in an iteration never ends the loop.
\* The thread leaves the except clause only into its sleep, and then begins
\* a further iteration unless monitoring has been stopped (or the run's
\* collection numbers are used up).
C1_LoopSurvivesException ==
    /\ [][\A t \in Threads :
            pc[t] = "caught" /\ pc'[t] # "caught" => pc'[t] = "sleep"]_vars
    /\ \A t \in Threads :
         (pc[t] = "caught") ~> (pc[t] = "collect" \/ ~monitoring \/ BudgetSpent)

\* The only thread has begun a second iteration after its first one failed in
\* save_metrics (the snapshot is in the buffer and not in the file).
C1_Witness ==
    /\ monitoring
    /\ pc[1] = "collect"
    /\ pc[2] = "idle"
    /\ appended = <<1>>
    /\ file = <<>>

\* C2 (SpecCollect): get_database_metrics raises nothing, and when connect()
\* fails the snapshot's database part has status "disconnected" and an error
\* entry.
C2_NeverRaises ==
    stage # "init" =>
        /\ result.raised = "none"
        /\ ~env.connect_ok =>
             /\ {"status", "error"} \subseteq DOMAIN result.metrics.database
             /\ result.metrics.database["status"] = "disconnected"

C2_Witness ==
    /\ stage = "collected"
    /\ ~env.connect_ok
    /\ result.metrics.database["status"] = "disconnected"

\* C3 (Spec): the buffer holds at most max_metrics snapshots whenever no
\* save_metrics call stands between its append and its length test; each
\* call standing there accounts for at most one snapshot more.
C3_BufferBounded ==
    Len(metrics) <= max_metrics + Cardinality({t \in Threads : pc[t] = "trim"})

C3_Witness ==
    /\ NoSaveInFlight
    /\ Len(appended) > max_metrics
    /\ Len(metrics) = max_metrics

\* C4 (Spec): eviction is FIFO.  Between save_metrics calls the buffer is
\* the last min(n, max_metrics) of the n snapshots saved, in save order.
C4_FifoEviction ==
    NoSaveInFlight =>
        metrics = LastOf(appended,
                         IF Len(appended) < max_metrics THEN Len(appended)
                         ELSE max_metrics)

\* After capacity + 1 saves the first snapshot is gone and the newest is last.
C4_Witness ==
    /\ NoSaveInFlight
    /\ Len(appended) = max_metrics + 1
    /\ appended[1] \notin Range(metrics)
    /\ metrics[Len(metrics)] = appended[Len(appended)]

\* C5 (SpecCollect): check_alerts returns the alert of a metric exactly when
\* the snapshot has the metric and it is strictly greater than its threshold.
C5_AlertIffAbove ==
    stage = "evaluated" =>
        LET d == result.metrics.database
            s == result.metrics.system
        IN  /\ HasAlert("High connection count") <=>
                 ("connections" \in DOMAIN d /\ d["connections"] > connection_count)
            /\ HasAlert("High CPU usage") <=>
                 ("cpu_percent" \in DOMAIN s /\ s["cpu_percent"] > cpu_usage)
            /\ HasAlert("High memory usage") <=>
                 ("memory_percent" \in DOMAIN s /\ s["memory_percent"] > memory_usage)
            /\ HasAlert("High disk usage") <=>
                 ("disk_percent" \in DOMAIN s /\ s["disk_percent"] > disk_usage)

\* connections = 101 alerts; cpu at its threshold does not.
C5_Witness ==
    /\ stage = "evaluated"
    /\ result.metrics.database["status"] = "connected"
    /\ result.metrics.database["connections"] = connection_count + 1
    /\ "cpu_percent" \in DOMAIN result.metrics.system
    /\ result.metrics.system["cpu_percent"] = cpu_usage
    /\ HasAlert("High connection count")
    /\ ~HasAlert("High CPU usage")

\* C6 (FairSpec): a thread that finds the flag cleared at the top of the loop
\* returns and never iterates again; and if monitoring is stopped for good,
\* every thread finishes its iteration and returns.
C6_StopEndsLoops ==
    /\ [][\A t \in Threads :
            pc[t] = "top" /\ ~monitoring /\ pc'[t] # "top" => pc'[t] = "done"]_vars
    /\ [][\A t \in Threads : pc[t] = "done" => pc'[t] = "done"]_vars
    /\ (<>[](~monitoring)) => <>[](Running = {})

\* A thread has saved a snapshot and returned after the stop.
C6_Witness ==
    /\ ~monitoring
    /\ pc[1] = "done"
    /\ file # <<>>

\* C7 (Spec), as claimed: at most one monitor_loop thread runs at any time.
C7_AtMostOneLoopThread == Cardinality(Running) <= 1

\* C8 (Spec), as claimed: the buffer and the file hold their snapshots in
\* collection order.
C8_CollectionOrder == Increasing(metrics) /\ Increasing(file)

C10_SessionClosed ==
    stage # "init" /\ env.connect_ok => result.db.connection = "closed"

\* C11 (SpecCollect), as claimed: when the server refuses SHOW PROCESSLIST for
\* lack of the PROCESS privilege (the other statements being answered), the
\* call logs the warning about the privilege, reports active_processes = 0
\* and the snapshot is still connected.
C11_DeniedProcessList ==
    (/\ stage # "init"
     /\ env.connect_ok
     /\ env.status = HealthyEnv.status
     /\ env.proc.err = "access_denied") =>
        /\ \E i \in 1..Len(logged) :
              logged[i] = <<"WARNING", "SHOW PROCESSLIST requires PROCESS privilege">>
        /\ result.metrics.database["status"] = "connected"
        /\ result.metrics.database["active_processes"] = 0

\* C12 (Spec), as claimed: once the monitor has been started and stopped and
\* its threads have returned, fewer than max_metrics snapshots having been
\* saved, the file has as many lines as the buffer has snapshots.
C12_FileMatchesBuffer ==
    (/\ ~monitoring
     /\ Running = {}
     /\ \E t \in Threads : pc[t] = "done"
     /\ Len(appended) < max_metrics) =>
        Len(file) = Len(metrics)

\* The alerts in the order of the four tests of check_alerts.
AlertOrder ==
    <<"High connection count", "High CPU usage",
      "High memory usage", "High disk usage">>

RankOf(name) == CHOOSE i \in 1..Len(AlertOrder) : AlertOrder[i] = name

\* The value the snapshot holds for the metric of an alert (0 when missing).
MetricOf(name) ==
    CASE name = "High connection count" -> Get0(result.metrics.database, "connections")
      [] name = "High CPU usage" -> Get0(result.metrics.system, "cpu_percent")
      [] name = "High memory usage" -> Get0(result.metrics.system, "memory_percent")
      [] name = "High disk usage" -> Get0(result.metrics.system, "disk_percent")

ThresholdOf(name) ==
    CASE name = "High connection count" -> connection_count
      [] name = "High CPU usage" -> cpu_usage
      [] name = "High memory usage" -> memory_usage
      [] name = "High disk usage" -> disk_usage

\* C13 (SpecCollect): the list check_alerts returns is fixed by the snapshot
\* and the thresholds: its alerts come in the order connections, CPU, memory,
\* disk, none twice, and they are the alerts of the metrics above threshold.
C13_AlertsInFixedOrder ==
    stage = "evaluated" =>
        LET Above(name) == MetricOf(name) > ThresholdOf(name)
        IN  /\ \A i, j \in 1..Len(alerts) :
                  i < j => RankOf(alerts[i][1]) < RankOf(alerts[j][1])
            /\ [i \in 1..Len(alerts) |-> alerts[i][1]] = SelectSeq(AlertOrder, Above)

\* All four metrics are above their thresholds.
C13_Witness ==
    /\ stage = "evaluated"
    /\ [i \in 1..Len(alerts) |-> alerts[i][1]] = AlertOrder

\* A step of check_alerts.
CheckAlertsStep == stage = "collected" /\ stage' = "evaluated"

CountIn(q, x) == Cardinality({i \in 1..Len(q) : q[i] = x})

ProfileKeys ==
    {"query", "execution_time", "rows_returned", "profile_details",
     "explain_plan", "optimization_suggestions"}

\* C15 (SpecProfile): when connect() fails, profile_query returns the error
\* result and does nothing else: no statement reaches the cursor (neither the
\* query nor a profiling switch) and no record is written to the query log.
C15_ConnectFailureOnly ==
    pstage = "done" /\ ~penv.connect_ok =>
        /\ presult.raised = "none"
        /\ DOMAIN presult.ret = {"error"}
        /\ presult.sent = <<>>
        /\ presult.qlog = <<>>
        /\ presult.server = InitialServer

\* The connection failed with a query-log handler that could have written.
C15_Witness ==
    /\ pstage = "done"
    /\ ~penv.connect_ok
    /\ penv.qlog_ok
    /\ "error" \in DOMAIN presult.ret

\* C16 (SpecProfile): once connected, no failure of a later step leaves
\* profile_query as an exception; a profile result with all its fields is
\* returned, and the part a failed step would have filled is empty.
C16_FailuresNotPropagated ==
    pstage = "done" /\ penv.connect_ok =>
        /\ presult.raised = "none"
        /\ DOMAIN presult.ret = ProfileKeys
        /\ penv.run.err # "none" => presult.ret.rows_returned = 0
        /\ penv.profiles.err # "none" => presult.ret.profile_details = <<>>
        /\ penv.detail.err # "none" => presult.ret.profile_details = <<>>
        /\ penv.explain.err # "none" =>
             /\ presult.ret.explain_plan = <<>>
             /\ presult.ret.optimization_suggestions =
                  GetOptimizationSuggestions(penv.query, penv.time, <<>>)

\* Every statement after the connect failed, and so did the log handler.
C16_Witness ==
    /\ pstage = "done"
    /\ penv.connect_ok
    /\ penv.set_on.err # "none"
    /\ penv.run.err # "none"
    /\ penv.profiles.err # "none"
    /\ penv.explain.err # "none"
    /\ ~penv.qlog_ok
    /\ presult.raised = "none"
    /\ presult.ret.rows_returned = 0

\* C17 (SpecProfile), as claimed: whatever statement profile_query is given,
\* the data of the database is the same after the call as before it.
C17_DataUnchanged ==
    pstage = "done" => presult.server = InitialServer

LowerChar(c) ==
    IF \E i \in 1..Len(UpperCase) : UpperCase[i] = c
    THEN LowerCase[CHOOSE i \in 1..Len(UpperCase) : UpperCase[i] = c]
    ELSE c

\* The text has SELECT * in it, each letter in either case.
HasSelectStar(query) ==
    \E i \in 0..(Len(query) - Len(SELECT_STAR)) :
        \A k \in 1..Len(SELECT_STAR) :
            query[i + k] \in {SELECT_STAR[k], LowerChar(SELECT_STAR[k])}

\* C18 (SpecSuggest): for every query text that has SELECT * in it in any
\* letter case, whatever the plan and the execution time, the list returned
\* holds the 'Avoid SELECT *' suggestion.
C18_SelectStarSuggested ==
    sstage = "done" /\ HasSelectStar(sinput.query) =>
        CountIn(suggestions, "Avoid SELECT *") = 1

\* Mixed case, a slow execution and a plan with rows that add suggestions
\* and a row whose int() fails.
C18_Witness ==
    /\ sstage = "done"
    /\ sinput.query = Q_SelectStarLimit
    /\ sinput.execution_time > slow_suggestion_time
    /\ Len(sinput.explain_plan) = 2
    /\ sinput.explain_plan[2] = TupleOf(PyStrV(T_SIMPLE), PyNone, PyStrV(T_many))
    /\ suggestions[Len(suggestions)] = "Avoid SELECT *"

\* The row carries a key column and its value is null.
NullKey(row) ==
    \/ row.shape = "dict" /\ "key" \in DOMAIN row.fields
                          /\ row.fields["key"].t = "none"
    \/ row.shape = "tuple" /\ Len(row.items) >= 6 /\ row.items[6].t = "none"

\* C19 (SpecSuggest): every row of the plan whose key is null, dict or tuple,
\* adds one 'No index is being used' suggestion, whatever its other fields.
C19_NullKeySuggested ==
    sstage = "done" =>
        CountIn(suggestions, "No index is being used") >=
            Cardinality({i \in 1..Len(sinput.explain_plan) :
                           NullKey(sinput.explain_plan[i])})

\* Two rows with a null key, one of them a tuple whose rows value is not a
\* number: two suggestions.
C19_Witness ==
    /\ sstage = "done"
    /\ Len(sinput.explain_plan) = 2
    /\ sinput.explain_plan[1].shape = "dict"
    /\ NullKey(sinput.explain_plan[1])
    /\ sinput.explain_plan[2] = TupleOf(PyStrV(T_SIMPLE), PyNone, PyStrV(T_many))
    /\ CountIn(suggestions, "No index is being used") = 2

\* The rows of the plan that the loop reads (dicts, and tuples of five or
\* more items) for which a test on one of their fields is true.
RowsWhere(Test(_)) ==
    {i \in 1..Len(sinput.explain_plan) :
        /\ ~RowFields(sinput.explain_plan[i]).skip
        /\ Test(RowFields(sinput.explain_plan[i]))}

KeyIsNone(f) == f.key.t = "none"

RowsAboveLimit(f) ==
    /\ f.rows_examined.t \in {"int", "str"}
    /\ IntOf(f.rows_examined).ok
    /\ IntOf(f.rows_examined).val > rows_limit

IsDependentSubquery(f) == Contains(PyStr(f.select_type), DEPENDENT_SUBQUERY)

\* C20 (SpecSuggest), as claimed: for each row, each of the three suggestions
\* is emitted exactly when the test on its own field (key, rows,
\* select_type) is true, whatever the row's other fields are.
C20_ChecksIndependent ==
    sstage = "done" =>
        /\ CountIn(suggestions, "No index is being used")
             = Cardinality(RowsWhere(KeyIsNone))
        /\ CountIn(suggestions, "Large number of rows examined")
             = Cardinality(RowsWhere(RowsAboveLimit))
        /\ CountIn(suggestions, "Dependent subquery detected")
             = Cardinality(RowsWhere(IsDependentSubquery))

\* The saves that have returned by time T.
SavedBy(T) == Cardinality({i \in 1..Len(saved_at) : saved_at[i] <= T})

\* C21 (SpecTimed), as claimed: by every time T of the run the loop has
\* completed collect/evaluate/save at least floor(T / interval) times, also
\* with one failing iteration.  (T ranges over the times whose events the
\* thread has all passed.)
C21_IterationsPerInterval ==
    \A T \in 0..MaxTime :
        (T < elapsed \/ (T = elapsed /\ tpc = "sleep")) =>
            SavedBy(T) >= T \div interval

\* C22 (SpecUpdate), as claimed: a call on a connected session raises nothing
\* and either has committed its change and returns the row count or id, or
\* has rolled back and returns 0 or None, leaving nothing pending; a call on
\* a session that is not connected returns 0 or None and sends nothing to
\* the database.
C22_CommitOrRollback ==
    ucall.op # "none" =>
        /\ ucall.raised = "none"
        /\ ucall.was = "open" =>
             /\ ~userver.pending
             /\ \/ userver.data = ucall.before.data + 1
                   /\ ucall.ret.t = "int"
                \/ userver.data = ucall.before.data
                   /\ ucall.ret = DefaultReturn(ucall.op)
        /\ ucall.was # "open" =>
             /\ ucall.ret = DefaultReturn(ucall.op)
             /\ ucall.sent = <<>>
             /\ userver = ucall.before

\* C23 (Spec), as claimed: every iteration that has saved its snapshot logs
\* the 'Monitoring summary' record for it and then sleeps, whatever the
\* snapshot holds: a thread leaves the summary step only into its sleep.
C23_SummaryAfterSave ==
    [][\A t \in Threads :
         pc[t] = "summary" /\ pc'[t] # "summary" => pc'[t] = "sleep"]_vars

\* C26 (Spec), as claimed: when the file write of save_metrics raises, the
\* snapshot of that call is not left in the buffer.
C26_FailedSaveNotBuffered ==
    [][\A t \in Threads :
         pc[t] = "write" /\ pc'[t] = "caught" =>
             cur[t].timestamp \notin Range(metrics')]_vars

\* C28 (SpecProfile): a profile_query call that has connected hands
\* SET profiling = 0 to the cursor as its last statement, after the query and
\* the profile statements, and has closed its session when it returns,
\* whichever of its statements failed.
C28_ProfilingOffAndClosed ==
    pstage = "done" /\ penv.connect_ok =>
        /\ presult.sent # <<>>
        /\ presult.sent[Len(presult.sent)] = "SET profiling = 0"
        /\ CountIn(presult.sent, "SET profiling = 0") = 1
        /\ presult.db.connection = "closed"
        /\ presult.db.cursor = "closed"

\* The query and SHOW PROFILES failed; profiling was switched off and the
\* session closed all the same.
C28_Witness ==
    /\ pstage = "done"
    /\ penv.connect_ok
    /\ penv.run.err # "none"
    /\ penv.profiles.err # "none"
    /\ presult.sent[Len(presult.sent)] = "SET profiling = 0"
    /\ presult.db.connection = "closed"

\* C24 (SpecTxn), as claimed: when a step of complex_transaction_demo has
\* failed, the tables are as they were before the demo: no order row, no
\* order_items row and no stock decrement of an earlier step remains.
C24_AllOrNothing ==
    (txstage = "done" /\ txin.demo = "complex" /\ txout.failed) =>
        txout.server.committed = txin.tables

\* C25 (SpecTxn), as claimed: whatever the outcome of
\* basic_transaction_demo, the stock of the two products adds up to the
\* same number after the demo as before it.
C25_StockConserved ==
    (txstage = "done" /\ txin.demo = "basic") =>
        txout.server.committed["ELEC-001"] + txout.server.committed["ELEC-002"]
            = txin.tables["ELEC-001"] + txin.tables["ELEC-002"]

\* C27 (SpecApi), as claimed: a request made after a failed connect attempt,
\* the database unreachable ever since, is answered 500 "Database
\* connection failed", never from the unconnected wrapper.
C27_UnconnectedAnswered500 ==
    response.after_failed =>
        /\ response.status = 500
        /\ response.body = "Database connection failed"

\* C29 (SpecCli), as claimed: the status command prints "Database
\* connection successful!" exactly when the connection test connected, and
\* setup_database runs create_database.py exactly when it did; otherwise
\* they report the failure.
C29_ReportsConnectionState ==
    cstage = "done" =>
        IF cin.command = "setup"
        THEN /\ cout.ran_create <=> cout.connected
             /\ (cout.printed = <<MSG_SETUP_FAILED>>) <=> ~cout.connected
        ELSE /\ (cout.printed = <<MSG_OK>>) <=> cout.connected
             /\ (cout.printed = <<MSG_FAILED>>) <=> ~cout.connected

\* C30 (SpecOrders), as claimed: once generate_orders has returned, every
\* order it counted has a total_amount equal to the sum of total_price over
\* the order_items rows of that order.
C30_TotalsMatchItems ==
    gpc = "returned" =>
        \A k \in 1..Len(gorders) :
            gorders[k].counted => gorders[k].total_amount = gorders[k].items_total

====
